---- MODULE Spec2Model ----
(***************************************************************************)
(* Model of the backend of the crypto trading dashboard: the candle store  *)
(* (table candlesticks, written by DataManager.saveCandle), the gap        *)
(* detector (DataManager.findDataGaps), the backfill loop                  *)
(* (DataManager.fillGaps over binanceApi.fetchKlines), the passes          *)
(* (DataManager.fillAllGaps, POST /api/fill-gaps), the stream connection   *)
(* and its handlers (connectToBinance / updateCurrentPrice), the periodic  *)
(* recalculation and cleanup, and the stream client of the frontend        *)
(* (BinanceService).                                                       *)
(*                                                                         *)
(* Time: the program counts milliseconds.  Every time constant of the     *)
(* program is a whole number of seconds, and 90 days of milliseconds does  *)
(* not fit TLC's 32-bit integers, so the model counts seconds: a source    *)
(* expression  n * 1000  is written  n  here, and the one-millisecond step *)
(* of  closeTime + 1  is one unit of the model.                            *)
(***************************************************************************)
EXTENDS Integers, Sequences, FiniteSets, TLC

VARIABLES
    candlesticks,    \* table candlesticks: a set of rows, one per (token, timeframe, open_time)
    current_prices,  \* table current_prices: token -> row, or NoRow
    now,             \* Date.now()
    lastSave,        \* the latest saveCandle call: its arguments and what the query did
    plan,            \* scripted saveCandle calls still to be issued, per token
    gapsFound,       \* the latest findDataGaps call: its arguments, what it read, its result
    fill,            \* the fillGaps call in progress: its arguments, locals and position
    upstreamHoles,   \* openTimes the upstream has no kline for
    isFillingGaps,   \* DataManager.isFillingGaps
    passes,          \* the fillAllGaps passes that are running: the promises each one awaits
    fillAllEvent,    \* the latest event of fillAllGaps: a pass started, a call dropped, a pass returned
    ws,              \* backend: the sockets connectToBinance has created, counted by state
    reconnectTimers, \* backend: the pending setTimeout(connectToBinance, 5000), by time left
    service,         \* frontend: the fields ws and reconnectTimeout of BinanceService
    webSockets,      \* frontend: the sockets BinanceService has created, by id
    timeouts,        \* frontend: the pending timeouts of BinanceService, by id
    lastDelete,      \* the latest DELETE on candlesticks: who issued it, its cutoff, its rowCount
    exchange,        \* the latest HTTP exchange of fetchKlines: the response and the outcome
    priceUpdate,     \* the latest call of updateCurrentPrice: its arguments and how it ended
    recalc,          \* the recalculate24hChanges call in progress: its locals and position
    manualFills,     \* the fillGaps calls of POST /api/fill-gaps that are in progress
    handlers,        \* the stream frames received, in order, each with the position of its handler
    pacing           \* the requests of the fillGaps calls of a pass over one minute

storeVars ==
    <<candlesticks, current_prices, now, lastSave, plan, gapsFound, fill, upstreamHoles>>

passVars == <<isFillingGaps, passes, fillAllEvent>>

streamVars == <<ws, reconnectTimers>>

serviceVars == <<service, webSockets, timeouts>>

deleteVars == <<lastDelete>>

fetchVars == <<exchange>>

priceVars == <<priceUpdate, recalc>>

manualVars == <<manualFills>>

handlerVars == <<handlers>>

pacingVars == <<pacing>>

processVars ==
    <<passVars, streamVars, serviceVars, deleteVars, fetchVars, priceVars, manualVars,
      handlerVars, pacingVars>>

vars ==
    <<candlesticks, current_prices, now, lastSave, plan, gapsFound, fill, upstreamHoles,
      isFillingGaps, passes, fillAllEvent, ws, reconnectTimers, service, webSockets,
      timeouts, lastDelete, exchange, priceUpdate, recalc, manualFills, handlers, pacing>>

-----------------------------------------------------------------------------
(* Configuration *)

\* src/backend/src/index.js:31-36
MARKET_CONFIG == [BTC |-> [symbol |-> "btcusdt"], ETH |-> [symbol |-> "ethusdt"]]

Tokens == DOMAIN MARKET_CONFIG

toUpperCase(s) ==
    CASE s = "btcusdt" -> "BTCUSDT"
      [] s = "ethusdt" -> "ETHUSDT"
      [] OTHER -> s

\* dataManager.js:192 and index.js:100-102
Timeframes == {"5m", "1h", "1d"}

\* Mutant of intervalMs: whatever is not 5m or 1d is an hour.
intervalMsFallbackHour(timeframe) ==
    IF timeframe = "5m" THEN 5 * 60
    ELSE IF timeframe = "1d" THEN 24 * 60 * 60
    ELSE 60 * 60

\* dataManager.js:12-19: the interval of a timeframe; whatever is not 5m or 1h is a day
intervalMs(timeframe) ==
    IF timeframe = "5m" THEN 5 * 60
    ELSE IF timeframe = "1h" THEN 60 * 60
    ELSE 24 * 60 * 60

\* 2024-01-01T00:00:00Z, the day the tests of dataManager set their clock to
T0 == 19723 * 24 * 60 * 60

NoRow == [price |-> -1]

-----------------------------------------------------------------------------
(* CandleStore: saveCandle *)

GREATEST(a, b) == IF a >= b THEN a ELSE b
LEAST(a, b) == IF a <= b THEN a ELSE b

\* dataManager.js:164-178: the VALUES of the INSERT
InsertValues(token, timeframe, candle) ==
    [token |-> token, timeframe |-> timeframe, open_time |-> candle.openTime,
     open |-> candle.open, high |-> candle.high, low |-> candle.low,
     close |-> candle.close, volume |-> candle.volume,
     close_time |-> candle.closeTime, quote_volume |-> candle.quoteVolume,
     trades |-> candle.trades,
     taker_buy_base_volume |-> candle.takerBuyBaseVolume,
     taker_buy_quote_volume |-> candle.takerBuyQuoteVolume]

\* dataManager.js:150: ON CONFLICT (token, timeframe, open_time)
Conflicting(table, excluded) ==
    {r \in table : /\ r.token = excluded.token
                   /\ r.timeframe = excluded.timeframe
                   /\ r.open_time = excluded.open_time}

\* Mutant of DoUpdateSet: volume is missing from the SET list.
DoUpdateSetKeepVolume(old, excluded) ==
    [old EXCEPT !.high = GREATEST(old.high, excluded.high),
                !.low = LEAST(old.low, excluded.low),
                !.close = excluded.close,
                !.close_time = excluded.close_time,
                !.quote_volume = excluded.quote_volume,
                !.trades = excluded.trades,
                !.taker_buy_base_volume = excluded.taker_buy_base_volume,
                !.taker_buy_quote_volume = excluded.taker_buy_quote_volume]

\* Mutant of DoUpdateSet: high is overwritten like close.
DoUpdateSetOverwriteHigh(old, excluded) ==
    [old EXCEPT !.high = excluded.high,
                !.low = LEAST(old.low, excluded.low),
                !.close = excluded.close,
                !.volume = excluded.volume,
                !.close_time = excluded.close_time,
                !.quote_volume = excluded.quote_volume,
                !.trades = excluded.trades,
                !.taker_buy_base_volume = excluded.taker_buy_base_volume,
                !.taker_buy_quote_volume = excluded.taker_buy_quote_volume]

\* dataManager.js:151-160: DO UPDATE SET
DoUpdateSet(old, excluded) ==
    [old EXCEPT !.high = GREATEST(old.high, excluded.high),
                !.low = LEAST(old.low, excluded.low),
                !.close = excluded.close,
                !.volume = excluded.volume,
                !.close_time = excluded.close_time,
                !.quote_volume = excluded.quote_volume,
                !.trades = excluded.trades,
                !.taker_buy_base_volume = excluded.taker_buy_base_volume,
                !.taker_buy_quote_volume = excluded.taker_buy_quote_volume]

\* Mutant of DoUpdateWhere: a write of equal closeTime is merged too.
DoUpdateWhereOrEqual(old, excluded) == old.close_time <= excluded.close_time

\* dataManager.js:161: WHERE candlesticks.close_time < EXCLUDED.close_time
DoUpdateWhere(old, excluded) == old.close_time < excluded.close_time

\* What the query of saveCandle does to the table: "insert", "update" or "skip".
QueryEffect(table, token, timeframe, candle) ==
    LET excluded == InsertValues(token, timeframe, candle)
        hit == Conflicting(table, excluded)
    IN  IF hit = {} THEN "insert"
        ELSE IF DoUpdateWhere(CHOOSE r \in hit : TRUE, excluded) THEN "update"
        ELSE "skip"

\* dataManager.js:145-181: the table after the query of saveCandle
saveCandle(table, token, timeframe, candle) ==
    LET excluded == InsertValues(token, timeframe, candle)
        hit == Conflicting(table, excluded)
        old == CHOOSE r \in hit : TRUE
    IN  IF hit = {} THEN table \cup {excluded}
        ELSE IF DoUpdateWhere(old, excluded)
             THEN (table \ {old}) \cup {DoUpdateSet(old, excluded)}
             ELSE table

\* The record of a saveCandle call; effect "error" is a query the pool rejected.
SaveRecord(path, token, timeframe, candle, effect) ==
    [path |-> path, token |-> token, timeframe |-> timeframe,
     candle |-> candle, effect |-> effect]

NoCandle ==
    [openTime |-> 0, open |-> 0, high |-> 0, low |-> 0, close |-> 0, volume |-> 0,
     closeTime |-> 0, quoteVolume |-> 0, trades |-> 0,
     takerBuyBaseVolume |-> 0, takerBuyQuoteVolume |-> 0]

NoSave == SaveRecord("none", "none", "none", NoCandle, "none")

\* No scripted call is pending.
NoPlan == [t \in Tokens |-> [writes |-> <<>>, next |-> 1]]

-----------------------------------------------------------------------------
(* GapDetector: findDataGaps *)

RECURSIVE Ascending(_)
\* ORDER BY ... ASC of a set of numbers
Ascending(S) ==
    IF S = {} THEN <<>>
    ELSE LET m == CHOOSE x \in S : \A y \in S : x <= y
         IN  <<m>> \o Ascending(S \ {m})

\* dataManager.js:21-28: SELECT open_time ... WHERE token = $1 AND timeframe = $2
\* ORDER BY open_time ASC
SelectOpenTimes(table, token, timeframe) ==
    Ascending({r.open_time : r \in {x \in table : x.token = token /\ x.timeframe = timeframe}})

\* Mutant of bootstrapMs: hourly data is fetched for 30 days.
bootstrapMs30Days(timeframe) ==
    IF timeframe = "5m" THEN 1 * 24 * 60 * 60
    ELSE IF timeframe = "1h" THEN 30 * 24 * 60 * 60
    ELSE 90 * 24 * 60 * 60

\* dataManager.js:35-41: how far back the first fetch of a timeframe reaches
bootstrapMs(timeframe) ==
    IF timeframe = "5m" THEN 1 * 24 * 60 * 60
    ELSE IF timeframe = "1h" THEN 7 * 24 * 60 * 60
    ELSE 90 * 24 * 60 * 60

\* dataManager.js:31-49: the gap of a series without rows
BootstrapGap(clock, timeframe) ==
    LET startTime == clock - bootstrapMs(timeframe)
    IN  [start |-> startTime, end |-> clock,
         missingIntervals |-> (clock - startTime) \div intervalMs(timeframe)]

\* Mutant of PairGap: the missing intervals are counted from prevTime.
PairGapCountedFromPrev(prevTime, currTime, interval) ==
    [start |-> prevTime + interval, end |-> currTime - interval,
     missingIntervals |-> (currTime - prevTime) \div interval]

\* dataManager.js:55-62: the gap between two consecutive rows
PairGap(prevTime, currTime, interval) ==
    LET expectedTime == prevTime + interval
    IN  [start |-> expectedTime, end |-> currTime - interval,
         missingIntervals |-> (currTime - expectedTime) \div interval]

RECURSIVE GapsBetween(_, _, _)
\* dataManager.js:52-64: the loop over the rows from index i (1-based: rows[i] is prev)
GapsBetween(rows, i, interval) ==
    IF i >= Len(rows) THEN <<>>
    ELSE (IF rows[i + 1] > rows[i] + interval
          THEN <<PairGap(rows[i], rows[i + 1], interval)>>
          ELSE <<>>) \o GapsBetween(rows, i + 1, interval)

\* Mutant of TrailingDue: one lapsed interval is enough.
TrailingDueAfterOneInterval(clock, lastTime, interval) == clock > lastTime + interval

\* dataManager.js:69-71: now > expectedLastTime + intervalMs
TrailingDue(clock, lastTime, interval) == clock > (lastTime + interval) + interval

\* dataManager.js:66-77: the gap from the last row to now
TrailingGap(rows, clock, interval) ==
    LET lastTime == rows[Len(rows)]
        expectedLastTime == lastTime + interval
    IN  IF TrailingDue(clock, lastTime, interval)
        THEN <<[start |-> expectedLastTime, end |-> clock,
                missingIntervals |-> (clock - expectedLastTime) \div interval]>>
        ELSE <<>>

\* dataManager.js:11-80: the gaps findDataGaps returns for the rows it has read
findDataGaps(rows, timeframe, clock) ==
    IF Len(rows) = 0 THEN <<BootstrapGap(clock, timeframe)>>
    ELSE GapsBetween(rows, 1, intervalMs(timeframe))
             \o TrailingGap(rows, clock, intervalMs(timeframe))

NoGapsFound ==
    [token |-> "none", timeframe |-> "none", at |-> 0, rows |-> <<>>,
     outcome |-> "none", gaps |-> <<>>]

\* dataManager.js:11-80: a call of findDataGaps; the rejection of the query (line 28)
\* reaches the caller
FindDataGapsCall(token, timeframe, ok) ==
    /\ gapsFound' =
          IF ok
          THEN LET rows == SelectOpenTimes(candlesticks, token, timeframe)
               IN  [token |-> token, timeframe |-> timeframe, at |-> now, rows |-> rows,
                    outcome |-> "ok", gaps |-> findDataGaps(rows, timeframe, now)]
          ELSE [token |-> token, timeframe |-> timeframe, at |-> now, rows |-> <<>>,
                outcome |-> "error", gaps |-> <<>>]
    /\ UNCHANGED <<candlesticks, current_prices, now, lastSave, plan, fill, upstreamHoles, processVars>>

-----------------------------------------------------------------------------
(* Sample candles.  The upstream sends the prices of a kline as decimal     *)
(* strings; the model writes the number a string denotes.                   *)

MaxPrice == 2
Prices == 1..MaxPrice

\* A kline of `interval` opening at openTime, as the upstream reports it: it closes one
\* unit before the next kline opens, and the longer kline has traded more.
Kline(openTime, interval, o, h, l, c) ==
    LET lot == intervalMs(interval) \div 60
    IN  [openTime |-> openTime, open |-> o, high |-> h, low |-> l, close |-> c,
         volume |-> 10 * lot, closeTime |-> openTime + intervalMs(interval) - 1,
         quoteVolume |-> 10 * lot * c, trades |-> lot + 1,
         takerBuyBaseVolume |-> 4 * lot, takerBuyQuoteVolume |-> 4 * lot * c]

\* Data model: high >= max(open, close), low <= min(open, close)
WellFormed(o, h, l, c) == h >= GREATEST(o, c) /\ l <= LEAST(o, c)

StoreIntervals == {"5m", "1h"}

\* The klines the store specification writes: every well-formed price combination,
\* as a 5m kline and as the 1h kline opening at the same time.
StoreKlines ==
    {Kline(T0, i, o, h, l, c) :
        <<i, o, h, l, c>> \in {q \in StoreIntervals \X Prices \X Prices \X Prices \X Prices :
                                  WellFormed(q[2], q[3], q[4], q[5])}}

\* Rows of other keys, stored before the specification starts: each differs from the
\* key under test in one column of the key.
OtherRows ==
    {InsertValues("BTC", "1h", Kline(T0, "1h", 1, 1, 1, 1)),
     InsertValues("ETH", "5m", Kline(T0, "5m", 1, 1, 1, 1)),
     InsertValues("BTC", "5m", Kline(T0 + intervalMs("5m"), "5m", 1, 1, 1, 1))}

-----------------------------------------------------------------------------
(* HistoricalFetcher: fetchKlines, and what the upstream answers *)

\* part_001 (binanceApi.js) 8-15: the query of a request; startTime and endTime are
\* left out when they are falsy (null or 0)
KlinesQuery(symbol, interval, limit, startTime, endTime) ==
    [symbol |-> toUpperCase(symbol), interval |-> interval, limit |-> limit,
     hasStart |-> startTime # 0, startTime |-> startTime,
     hasEnd |-> endTime # 0, endTime |-> endTime]

\* The first openTime of the grid of `interval` at or after t.
AlignUp(t, interval) == ((t + interval - 1) \div interval) * interval

\* The upstream's klines for a query: those it holds with startTime <= openTime <=
\* endTime, oldest first, at most `limit` of them.  It holds one for every openTime of
\* the interval's grid up to now, but for upstreamHoles.
UpstreamOpenTimes(query) ==
    LET D == intervalMs(query.interval)
        first == AlignUp(query.startTime, D)
        last == IF query.hasEnd /\ query.endTime < now THEN query.endTime ELSE now
    IN  {t \in {first + k * D : k \in 0..((last - first) \div D)} : t \notin upstreamHoles}

RECURSIVE FirstN(_, _)
FirstN(S, n) ==
    IF S = {} \/ n = 0 THEN <<>>
    ELSE LET m == CHOOSE x \in S : \A y \in S : x <= y
         IN  <<m>> \o FirstN(S \ {m}, n - 1)

\* part_001 27-51: the page fetchKlines resolves with for a 200 response
fetchKlines(symbol, interval, limit, startTime, endTime) ==
    LET query == KlinesQuery(symbol, interval, limit, startTime, endTime)
        times == FirstN(UpstreamOpenTimes(query), query.limit)
    IN  [i \in 1..Len(times) |-> Kline(times[i], interval, 1, 1, 1, 1)]

-----------------------------------------------------------------------------
(* BackfillCoordinator: fillGaps *)

NoFill ==
    [pc |-> "idle", token |-> "none", timeframe |-> "none", maxCandles |-> 0,
     gaps |-> <<>>, gi |-> 0, currentStart |-> 0, klines |-> <<>>, ki |-> 0,
     candlesFilled |-> 0, errors |-> <<>>,
     pages |-> 0, fetched |-> {}, written |-> {}, upserts |-> 0,
     request |-> [symbol |-> "none", interval |-> "none", limit |-> 0,
                  startTime |-> 0, endTime |-> 0]]

\* dataManager.js:83-88: the call.  An unknown token returns at once.
FillGapsCall(token, timeframe, maxCandles) ==
    /\ fill.pc = "idle"
    /\ fill' = IF token \in Tokens
               THEN [NoFill EXCEPT !.pc = "find", !.token = token,
                                   !.timeframe = timeframe, !.maxCandles = maxCandles]
               ELSE [NoFill EXCEPT !.pc = "done", !.token = token,
                                   !.timeframe = timeframe, !.maxCandles = maxCandles,
                                   !.errors = <<"Unknown token">>]
    /\ UNCHANGED <<candlesticks, current_prices, now, lastSave, plan, gapsFound,
                   upstreamHoles, processVars>>

RECURSIVE EnterGap(_)
\* dataManager.js:102-107: the for loop takes gap f.gi, or ends (line 141); the while
\* loop of a gap is entered when currentStart < gap.end
EnterGap(f) ==
    IF f.gi > Len(f.gaps) THEN [f EXCEPT !.pc = "done"]
    ELSE LET g == [f EXCEPT !.currentStart = f.gaps[f.gi].start, !.pages = 0]
         IN  IF g.currentStart < g.gaps[g.gi].end
             THEN [g EXCEPT !.pc = "fetch"]
             ELSE EnterGap([g EXCEPT !.gi = @ + 1])

\* dataManager.js:90-100: findDataGaps has answered.  A rejected query rejects fillGaps.
FillFindGaps(ok) ==
    /\ fill.pc = "find"
    /\ IF ok
       THEN LET rows == SelectOpenTimes(candlesticks, fill.token, fill.timeframe)
                gaps == findDataGaps(rows, fill.timeframe, now)
            IN  /\ gapsFound' = [token |-> fill.token, timeframe |-> fill.timeframe,
                                 at |-> now, rows |-> rows, outcome |-> "ok",
                                 gaps |-> gaps]
                /\ fill' = EnterGap([fill EXCEPT !.gaps = gaps, !.gi = 1])
       ELSE /\ gapsFound' = [token |-> fill.token, timeframe |-> fill.timeframe,
                             at |-> now, rows |-> <<>>, outcome |-> "error",
                             gaps |-> <<>>]
            /\ fill' = [fill EXCEPT !.pc = "thrown"]
    /\ UNCHANGED <<candlesticks, current_prices, now, lastSave, plan, upstreamHoles, processVars>>

\* Mutant of CatchInGap: the try block is around the for loop, so the first error
\* ends the loop over the gaps.
CatchAroundLoop(f, message) ==
    [f EXCEPT !.errors = Append(@, message), !.gi = Len(f.gaps) + 1, !.pc = "done",
              !.klines = <<>>, !.ki = 0]

\* dataManager.js:135-138: the catch of a gap: the message is recorded and the for loop
\* goes on with the next gap
CatchInGap(f, message) ==
    EnterGap([f EXCEPT !.errors = Append(@, message), !.gi = @ + 1,
                       !.klines = <<>>, !.ki = 0])

\* Mutant of PageArguments: the request has no endTime.
PageArgumentsOpenEnded(f) ==
    [symbol |-> MARKET_CONFIG[f.token].symbol, interval |-> f.timeframe,
     limit |-> LEAST(f.maxCandles, 1000), startTime |-> f.currentStart, endTime |-> 0]

\* dataManager.js:108-114: the arguments of the fetchKlines call of a page
PageArguments(f) ==
    [symbol |-> MARKET_CONFIG[f.token].symbol, interval |-> f.timeframe,
     limit |-> LEAST(f.maxCandles, 1000), startTime |-> f.currentStart,
     endTime |-> f.gaps[f.gi].end]

\* dataManager.js:107-118: fetchKlines has answered for the page at currentStart.  The
\* upstream answers 200 for a configured interval when the request gets through; any
\* other answer rejects (part_001 52-63).
FillFetch(ok) ==
    /\ fill.pc = "fetch"
    /\ LET args == PageArguments(fill)
           klines == fetchKlines(args.symbol, args.interval, args.limit, args.startTime,
                                 args.endTime)
           asked == [fill EXCEPT !.pages = @ + 1, !.request = args]
       IN  fill' =
              IF ~ok \/ fill.timeframe \notin Timeframes
              THEN CatchInGap(asked, "fetchKlines rejected")
              ELSE IF Len(klines) = 0
              THEN EnterGap([asked EXCEPT !.gi = @ + 1])
              ELSE [asked EXCEPT !.pc = "save", !.klines = klines, !.ki = 1,
                                 !.fetched = @ \cup {klines[i] : i \in 1..Len(klines)}]
    /\ UNCHANGED <<candlesticks, current_prices, now, lastSave, plan, gapsFound,
                   upstreamHoles, processVars>>

\* Mutant of NextStart: the next batch starts where the last kline opens.
NextStartAtOpen(klines) == klines[Len(klines)].openTime

\* dataManager.js:129-130: where the next batch starts
NextStart(klines) == klines[Len(klines)].closeTime + 1

\* dataManager.js:121-130: saveCandle of the next kline of the page has answered.  After
\* the last one the page is counted and the cursor moves; a rejected query is caught by
\* the catch of the gap.
FillSave(ok) ==
    /\ fill.pc = "save"
    /\ LET kline == fill.klines[fill.ki]
       IN  IF ok
           THEN /\ lastSave' = SaveRecord("backfill", fill.token, fill.timeframe, kline,
                                          QueryEffect(candlesticks, fill.token,
                                                      fill.timeframe, kline))
                /\ candlesticks' = saveCandle(candlesticks, fill.token, fill.timeframe, kline)
                /\ fill' =
                      LET saved == [fill EXCEPT !.written = @ \cup {kline.openTime},
                                                !.upserts = @ + 1]
                      IN  IF fill.ki < Len(fill.klines)
                          THEN [saved EXCEPT !.ki = @ + 1]
                          ELSE [saved EXCEPT !.pc = "sleep",
                                             !.candlesFilled = @ + Len(fill.klines),
                                             !.currentStart = NextStart(fill.klines),
                                             !.klines = <<>>, !.ki = 0]
           ELSE /\ lastSave' = SaveRecord("backfill", fill.token, fill.timeframe, kline,
                                          "error")
                /\ UNCHANGED candlesticks
                /\ fill' = CatchInGap(fill, "query rejected")
    /\ UNCHANGED <<current_prices, now, plan, gapsFound, upstreamHoles, processVars>>

\* dataManager.js:132-134, 107: the pause after a page is over; the while loop goes on
\* when currentStart < gap.end, else the for loop takes the next gap
FillSleep ==
    /\ fill.pc = "sleep"
    /\ fill' = IF fill.currentStart < fill.gaps[fill.gi].end
               THEN [fill EXCEPT !.pc = "fetch"]
               ELSE EnterGap([fill EXCEPT !.gi = @ + 1])
    /\ UNCHANGED <<candlesticks, current_prices, now, lastSave, plan, gapsFound,
                   upstreamHoles, processVars>>

-----------------------------------------------------------------------------
(* StreamIngestor and PriceTracker *)

\* A frame of the combined stream (index.js:113-116, 122-134).
KlineMessage(s, interval, k) ==
    [e |-> "kline", s |-> s,
     k |-> [t |-> k.openTime, T |-> k.closeTime, i |-> interval,
            o |-> k.open, h |-> k.high, l |-> k.low, c |-> k.close,
            v |-> k.volume, q |-> k.quoteVolume, n |-> k.trades,
            V |-> k.takerBuyBaseVolume, Q |-> k.takerBuyQuoteVolume]]

\* index.js:117-119: the configured token whose symbol the frame names, or "none"
TokenOfSymbol(s) ==
    IF \E t \in Tokens : toUpperCase(MARKET_CONFIG[t].symbol) = s
    THEN CHOOSE t \in Tokens : toUpperCase(MARKET_CONFIG[t].symbol) = s
    ELSE "none"

\* index.js:122-134
CandleOfMessage(message) ==
    [openTime |-> message.k.t, open |-> message.k.o, high |-> message.k.h,
     low |-> message.k.l, close |-> message.k.c, volume |-> message.k.v,
     closeTime |-> message.k.T, quoteVolume |-> message.k.q, trades |-> message.k.n,
     takerBuyBaseVolume |-> message.k.V, takerBuyQuoteVolume |-> message.k.Q]

\* index.js:137: the timeframe the stream handler stores a candle under
StreamTimeframe(message) == "5m"

\* Mutant of HistoricalRows: the query orders by open_time DESC.
HistoricalRowsNewest(table, token, dayAgo) ==
    LET cand == {r \in table : r.token = token /\ r.open_time >= dayAgo}
    IN  {r \in cand : \A x \in cand : r.open_time >= x.open_time}

\* index.js:161-168: the rows the query of the price 24 hours ago may return (LIMIT 1
\* of ORDER BY open_time ASC: any row of the smallest open_time)
HistoricalRows(table, token, dayAgo) ==
    LET cand == {r \in table : r.token = token /\ r.open_time >= dayAgo}
    IN  {r \in cand : \A x \in cand : r.open_time <= x.open_time}

\* index.js:170-176: the change as the fraction <<numerator, denominator>> of the
\* division the code performs; 0 is <<0, 1>>
Change24h(price, rows) ==
    IF rows = {} THEN {<<0, 1>>}
    ELSE {IF r.close > 0 THEN <<(price - r.close) * 100, r.close>> ELSE <<0, 1>> : r \in rows}

\* index.js:158-190: the rows current_prices may hold after updateCurrentPrice, which
\* reads the table as saveCandle left it; a rejected query is caught and logged (187-189)
updateCurrentPrice(prices, table, token, price, ok) ==
    IF ok
    THEN {[prices EXCEPT ![token] = [price |-> price, change_24h |-> ch, updated_at |-> now]] :
             ch \in Change24h(price, HistoricalRows(table, token, now - 24 * 60 * 60))}
    ELSE {prices}

\* What the pool does to the two writes of a message handler: both succeed, the query
\* of saveCandle is rejected, or a query of updateCurrentPrice is rejected.
HandlerOutcomes == {"ok", "saveError", "priceError"}

\* index.js:111-146: the handler of a frame that is a kline of a configured symbol.  It
\* stores the candle and then updates the current price; a rejected saveCandle query is
\* caught and logged (143-145) and the price is then not updated.
OnMessage(message, outcome) ==
    LET token == TokenOfSymbol(message.s)
        candle == CandleOfMessage(message)
        tf == StreamTimeframe(message)
    IN  /\ message.e = "kline"
        /\ token # "none"
        /\ IF outcome # "saveError"
           THEN /\ lastSave' = SaveRecord("stream", token, tf, candle,
                                          QueryEffect(candlesticks, token, tf, candle))
                /\ candlesticks' = saveCandle(candlesticks, token, tf, candle)
                /\ current_prices' \in updateCurrentPrice(current_prices, candlesticks',
                                                          token, candle.close,
                                                          outcome = "ok")
           ELSE /\ lastSave' = SaveRecord("stream", token, tf, candle, "error")
                /\ UNCHANGED <<candlesticks, current_prices>>
        /\ UNCHANGED <<now, plan, gapsFound, fill, upstreamHoles, processVars>>

\* index.js:111-146: a frame the handler drops without a write
OnMessageDropped(message) ==
    /\ message.e # "kline" \/ TokenOfSymbol(message.s) = "none"
    /\ UNCHANGED vars

-----------------------------------------------------------------------------
(* BackfillCoordinator: fillAllGaps.  Each pass starts one fillGaps per      *)
(* (token, timeframe); the steps of such a call are those of fillGaps above, *)
(* followed here by what the pass observes of them: the call is started,     *)
(* has a request out, and settles.                                           *)

\* dataManager.js:191: Object.keys(this.marketConfig), in insertion order
tokens == <<"BTC", "ETH">>

\* dataManager.js:192
timeframes == <<"5m", "1h", "1d">>

\* dataManager.js:197-198: the i-th promise pushed by the two for loops
PairAt(i) ==
    [token |-> tokens[((i - 1) \div Len(timeframes)) + 1],
     timeframe |-> timeframes[((i - 1) % Len(timeframes)) + 1]]

PairCount == Len(tokens) * Len(timeframes)

\* A fillGaps call of a pass: awaiting findDataGaps ("find"), awaiting a page ("fetch"),
\* resolved with value, or rejected with error.
Promise(pc, candlesFilled, errors, error) ==
    [pc |-> pc, value |-> [candlesFilled |-> candlesFilled, errors |-> errors],
     error |-> error]

Settled(promise) == promise.pc \in {"resolved", "rejected"}

\* Mutant of InProgress: the flag is not looked at.
InProgressNever(flag) == FALSE

\* dataManager.js:185: if (this.isFillingGaps)
InProgress(flag) == flag

\* Mutant of CatchRejection: the entry of a failed pair does not name its timeframe.
CatchRejectionTokenOnly(token, timeframe, promise) ==
    IF promise.pc = "rejected"
    THEN [token |-> token, error |-> promise.error]
    ELSE promise.value

\* dataManager.js:199-201: fillGaps(token, timeframe).catch(error => ({token, timeframe,
\* error: error.message}))
CatchRejection(token, timeframe, promise) ==
    IF promise.pc = "rejected"
    THEN [token |-> token, timeframe |-> timeframe, error |-> promise.error]
    ELSE promise.value

NoFillAllEvent == [kind |-> "none", results |-> <<>>]

\* dataManager.js:184-205: a call of fillAllGaps, up to its await: dropped by the flag,
\* or the flag is set and every fillGaps is started (each runs up to its first await)
FillAllGapsCall ==
    /\ IF InProgress(isFillingGaps)
       THEN /\ fillAllEvent' = [kind |-> "dropped", results |-> <<>>]
            /\ UNCHANGED <<isFillingGaps, passes>>
       ELSE /\ isFillingGaps' = TRUE
            /\ passes' = Append(passes, [i \in 1..PairCount |-> Promise("find", 0, <<>>, "")])
            /\ fillAllEvent' = [kind |-> "started", results |-> <<>>]
    /\ UNCHANGED <<storeVars, streamVars, serviceVars, deleteVars, fetchVars, priceVars,
                   manualVars, handlerVars, pacingVars>>

FindOutcomes == {"gaps", "no gaps", "rejected"}

\* dataManager.js:90-100, for the fillGaps call i of pass p: findDataGaps answers with
\* gaps (the first page is requested), with none (the call resolves), or rejects (the
\* call rejects)
PassFindGaps(p, i, outcome) ==
    /\ p \in DOMAIN passes
    /\ passes[p][i].pc = "find"
    /\ passes' = [passes EXCEPT ![p][i] =
                     CASE outcome = "gaps" -> Promise("fetch", 0, <<>>, "")
                       [] outcome = "no gaps" -> Promise("resolved", 0, <<>>, "")
                       [] OTHER -> Promise("rejected", 0, <<>>, "query rejected")]
    /\ UNCHANGED <<storeVars, isFillingGaps, fillAllEvent, streamVars, serviceVars,
                   deleteVars, fetchVars, priceVars, manualVars, handlerVars, pacingVars>>

\* dataManager.js:102-141, for the fillGaps call i of pass p: the pages are over, or a
\* request was rejected and the message is in errors; the call resolves
PassFillGapsReturns(p, i, ok) ==
    /\ p \in DOMAIN passes
    /\ passes[p][i].pc = "fetch"
    /\ passes' = [passes EXCEPT ![p][i] =
                     IF ok THEN Promise("resolved", 1, <<>>, "")
                     ELSE Promise("resolved", 0, <<"fetchKlines rejected">>, "")]
    /\ UNCHANGED <<storeVars, isFillingGaps, fillAllEvent, streamVars, serviceVars,
                   deleteVars, fetchVars, priceVars, manualVars, handlerVars, pacingVars>>

\* Mutant of Finally: the flag is cleared at the end of the try block, which a pass with
\* a rejected fillGaps does not reach.
FinallyUnlessRejected(promises) == \E i \in DOMAIN promises : promises[i].pc = "rejected"

\* dataManager.js:209-211: finally { this.isFillingGaps = false }
Finally(promises) == FALSE

Remove(seq, p) == [i \in 1..(Len(seq) - 1) |-> IF i < p THEN seq[i] ELSE seq[i + 1]]

\* dataManager.js:207-211: Promise.all resolves when every promise has, the results
\* are returned in the order of the promises, and finally the flag is cleared
FillAllGapsReturns(p) ==
    /\ p \in DOMAIN passes
    /\ \A i \in 1..PairCount : Settled(passes[p][i])
    /\ fillAllEvent' =
          [kind |-> "returned",
           results |-> [i \in 1..PairCount |->
                           CatchRejection(PairAt(i).token, PairAt(i).timeframe,
                                          passes[p][i])]]
    /\ passes' = Remove(passes, p)
    /\ isFillingGaps' = Finally(passes[p])
    /\ UNCHANGED <<storeVars, streamVars, serviceVars, deleteVars, fetchVars, priceVars,
                   manualVars, handlerVars, pacingVars>>

PassIdle ==
    /\ isFillingGaps = FALSE
    /\ passes = <<>>
    /\ fillAllEvent = NoFillAllEvent

-----------------------------------------------------------------------------
(* StreamIngestor: connectToBinance and the events of the sockets it creates. *)
(* A socket is CONNECTING, then OPEN; an error leaves it CLOSING until its    *)
(* close event, which every socket emits once.  A timer carries the seconds   *)
(* left until it is due.                                                      *)

NoSockets == [CONNECTING |-> 0, OPEN |-> 0, CLOSING |-> 0]

\* index.js:154: setTimeout(connectToBinance, 5000)
ReconnectDelay == 5

\* index.js:98-105: new WebSocket(...)
connectToBinance(sockets) == [sockets EXCEPT !.CONNECTING = @ + 1]

\* Mutant of OnError: the error handler schedules a reconnect as the close handler does.
OnErrorReconnects(timers) == Append(timers, ReconnectDelay)

\* index.js:148-150: ws.on('error') logs
OnError(timers) == timers

\* index.js:152-155: ws.on('close') logs and schedules connectToBinance
OnClose(timers) == Append(timers, ReconnectDelay)

\* index.js:107-109: ws.on('open')
WsOpen ==
    /\ ws.CONNECTING > 0
    /\ ws' = [ws EXCEPT !.CONNECTING = @ - 1, !.OPEN = @ + 1]
    /\ UNCHANGED <<reconnectTimers, storeVars, passVars, serviceVars, deleteVars, fetchVars, priceVars,
                   manualVars, handlerVars, pacingVars>>

\* index.js:148-150: a socket that connects or is open fails
WsError(state) ==
    /\ state \in {"CONNECTING", "OPEN"}
    /\ ws[state] > 0
    /\ ws' = [ws EXCEPT ![state] = @ - 1, !.CLOSING = @ + 1]
    /\ reconnectTimers' = OnError(reconnectTimers)
    /\ UNCHANGED <<storeVars, passVars, serviceVars, deleteVars, fetchVars, priceVars,
                   manualVars, handlerVars, pacingVars>>

\* index.js:152-155: the remote end closes an open socket, or a failed socket closes
WsClose(state) ==
    /\ state \in {"OPEN", "CLOSING"}
    /\ ws[state] > 0
    /\ ws' = [ws EXCEPT ![state] = @ - 1]
    /\ reconnectTimers' = OnClose(reconnectTimers)
    /\ UNCHANGED <<storeVars, passVars, serviceVars, deleteVars, fetchVars, priceVars,
                   manualVars, handlerVars, pacingVars>>

\* A second passes for the pending timers.
TimerTick ==
    /\ \E i \in DOMAIN reconnectTimers : reconnectTimers[i] > 0
    /\ reconnectTimers' = [i \in DOMAIN reconnectTimers |->
                              IF reconnectTimers[i] > 0 THEN reconnectTimers[i] - 1 ELSE 0]
    /\ UNCHANGED <<ws, storeVars, passVars, serviceVars, deleteVars, fetchVars, priceVars,
                   manualVars, handlerVars, pacingVars>>

\* index.js:154: a timer that is due calls connectToBinance
ReconnectFires(i) ==
    /\ i \in DOMAIN reconnectTimers
    /\ reconnectTimers[i] = 0
    /\ reconnectTimers' = Remove(reconnectTimers, i)
    /\ ws' = connectToBinance(ws)
    /\ UNCHANGED <<storeVars, passVars, serviceVars, deleteVars, fetchVars, priceVars,
                   manualVars, handlerVars, pacingVars>>

\* index.js:111: an open socket delivers a frame to the handler
WsMessage(message, outcome) ==
    /\ ws.OPEN > 0
    /\ OnMessage(message, outcome)

WsMessageDropped(message) ==
    /\ ws.OPEN > 0
    /\ OnMessageDropped(message)

StreamIdle ==
    /\ ws = NoSockets
    /\ reconnectTimers = <<>>

-----------------------------------------------------------------------------
(* The frontend's stream client, BinanceService (part_006:489-657), the only  *)
(* stream client of the repository with a disconnect().  The backend's        *)
(* connectToBinance keeps no reference to its socket or to its timer.         *)
(* A socket has an id, its index in webSockets; null is 0.  The handle of a   *)
(* timeout is the id of the socket whose close handler set it.                *)

MaxSockets == 3

\* part_006:490-491: the fields of a new BinanceService; stoppedAt records the number
\* of sockets created when disconnect() was first called (-1: not called), lastData the
\* socket that delivered the latest candle to onData
NoService == [ws |-> 0, reconnectTimeout |-> 0, stoppedAt |-> -1, lastData |-> 0]

\* part_006:549-567: connectKlineStream returns when this.ws is OPEN, else it creates a
\* socket and stores it in this.ws
connectKlineStream(svc, sockets) ==
    IF svc.ws # 0 /\ sockets[svc.ws] = "OPEN"
    THEN [service |-> svc, webSockets |-> sockets]
    ELSE [service |-> [svc EXCEPT !.ws = Len(sockets) + 1],
          webSockets |-> Append(sockets, "CONNECTING")]

\* WebSocket.close(): a socket that connects or is open starts closing
close(sockets, id) ==
    IF id # 0 /\ sockets[id] \in {"CONNECTING", "OPEN"}
    THEN [sockets EXCEPT ![id] = "CLOSING"]
    ELSE sockets

\* clearTimeout(handle)
clearTimeout(pending, handle) ==
    SelectSeq(pending, LAMBDA t : t.handle # handle)

\* part_006:549: the application calls connectKlineStream
ConnectKlineStreamCall ==
    /\ service.stoppedAt < 0
    /\ Len(webSockets) < MaxSockets
    /\ LET r == connectKlineStream(service, webSockets)
       IN  /\ service' = r.service
           /\ webSockets' = r.webSockets
    /\ UNCHANGED <<timeouts, storeVars, passVars, streamVars, deleteVars, fetchVars, priceVars,
                   manualVars, handlerVars, pacingVars>>

\* part_006:569-571: onopen
SocketOpens(id) ==
    /\ id \in DOMAIN webSockets
    /\ webSockets[id] = "CONNECTING"
    /\ webSockets' = [webSockets EXCEPT ![id] = "OPEN"]
    /\ UNCHANGED <<service, timeouts, storeVars, passVars, streamVars, deleteVars, fetchVars, priceVars,
                   manualVars, handlerVars, pacingVars>>

\* part_006:573-612: onmessage of an open socket with a kline of a configured symbol:
\* onData(token, candlestick)
SocketMessage(id) ==
    /\ id \in DOMAIN webSockets
    /\ webSockets[id] = "OPEN"
    /\ service' = [service EXCEPT !.lastData = id]
    /\ UNCHANGED <<webSockets, timeouts, storeVars, passVars, streamVars, deleteVars,
                   fetchVars, priceVars, manualVars, handlerVars, pacingVars>>

\* part_006:614-616: onerror logs; the socket then closes
SocketFails(id) ==
    /\ id \in DOMAIN webSockets
    /\ webSockets[id] \in {"CONNECTING", "OPEN"}
    /\ webSockets' = [webSockets EXCEPT ![id] = "CLOSING"]
    /\ UNCHANGED <<service, timeouts, storeVars, passVars, streamVars, deleteVars, fetchVars, priceVars,
                   manualVars, handlerVars, pacingVars>>

\* part_006:618-626: onclose of a socket the remote end closes, or that was closing:
\* the reconnect is scheduled and its handle stored in this.reconnectTimeout
SocketCloses(id) ==
    /\ id \in DOMAIN webSockets
    /\ webSockets[id] \in {"OPEN", "CLOSING"}
    /\ webSockets' = [webSockets EXCEPT ![id] = "CLOSED"]
    /\ timeouts' = Append(timeouts, [handle |-> id, left |-> ReconnectDelay])
    /\ service' = [service EXCEPT !.reconnectTimeout = id]
    /\ UNCHANGED <<storeVars, passVars, streamVars, deleteVars, fetchVars, priceVars,
                   manualVars, handlerVars, pacingVars>>

\* A second passes for the pending timeouts.
TimeoutTick ==
    /\ \E i \in DOMAIN timeouts : timeouts[i].left > 0
    /\ timeouts' = [i \in DOMAIN timeouts |->
                       IF timeouts[i].left > 0
                       THEN [timeouts[i] EXCEPT !.left = @ - 1] ELSE timeouts[i]]
    /\ UNCHANGED <<service, webSockets, storeVars, passVars, streamVars, deleteVars,
                   fetchVars, priceVars, manualVars, handlerVars, pacingVars>>

\* part_006:622-625: a timeout that is due calls connectKlineStream
TimeoutFires(i) ==
    /\ i \in DOMAIN timeouts
    /\ timeouts[i].left = 0
    /\ Len(webSockets) < MaxSockets
    /\ timeouts' = Remove(timeouts, i)
    /\ LET r == connectKlineStream(service, webSockets)
       IN  /\ service' = r.service
           /\ webSockets' = r.webSockets
    /\ UNCHANGED <<storeVars, passVars, streamVars, deleteVars, fetchVars, priceVars,
                   manualVars, handlerVars, pacingVars>>

\* part_006:645-657: disconnect()
Disconnect ==
    /\ timeouts' = IF service.reconnectTimeout # 0
                   THEN clearTimeout(timeouts, service.reconnectTimeout)
                   ELSE timeouts
    /\ webSockets' = close(webSockets, service.ws)
    /\ service' = [service EXCEPT !.reconnectTimeout = 0, !.ws = 0,
                                  !.stoppedAt = IF @ < 0 THEN Len(webSockets) ELSE @]
    /\ UNCHANGED <<storeVars, passVars, streamVars, deleteVars, fetchVars, priceVars,
                   manualVars, handlerVars, pacingVars>>

ServiceIdle ==
    /\ service = NoService
    /\ webSockets = <<>>
    /\ timeouts = <<>>

-----------------------------------------------------------------------------
(* PriceTracker: updateCurrentPrice called on its own, and                    *)
(* recalculate24hChanges, one query at a time.                                *)

NoPriceUpdate == [token |-> "none", price |-> 0, dayAgo |-> 0, outcome |-> "none"]

\* index.js:158-190: a call of updateCurrentPrice; when a query is rejected the catch
\* logs (187-189) and the call resolves
UpdateCurrentPriceCall(token, price, ok) ==
    /\ current_prices' \in updateCurrentPrice(current_prices, candlesticks, token, price, ok)
    /\ priceUpdate' = [token |-> token, price |-> price, dayAgo |-> now - 24 * 60 * 60,
                       outcome |-> IF ok THEN "written" ELSE "logged"]
    /\ UNCHANGED <<candlesticks, now, lastSave, plan, gapsFound, fill, upstreamHoles,
                   passVars, streamVars, serviceVars, deleteVars, fetchVars, recalc,
                   manualVars, handlerVars, pacingVars>>

NoRecalc ==
    [pc |-> "idle", ti |-> 0, dayAgo |-> 0, currentPrice |-> 0, change24h |-> <<0, 1>>]

\* index.js:193-197: the call; dayAgo is computed once, before the loop
Recalculate24hChangesCall ==
    /\ recalc.pc = "idle"
    /\ recalc' = [NoRecalc EXCEPT !.pc = "price", !.ti = 1, !.dayAgo = now - 24 * 60 * 60]
    /\ UNCHANGED <<storeVars, passVars, streamVars, serviceVars, deleteVars, fetchVars,
                   priceUpdate, manualVars, handlerVars, pacingVars>>

\* index.js:197, 233-235: the for loop takes the next token, or the call returns
NextToken(r) ==
    IF r.ti < Len(tokens)
    THEN [r EXCEPT !.pc = "price", !.ti = @ + 1, !.currentPrice = 0, !.change24h = <<0, 1>>]
    ELSE NoRecalc

\* index.js:199-206: the current price is read; without a row the loop continues, and a
\* rejected query is caught (233-235)
RecalcReadPrice(ok) ==
    /\ recalc.pc = "price"
    /\ recalc' = IF ~ok \/ current_prices[tokens[recalc.ti]] = NoRow
                 THEN NextToken(recalc)
                 ELSE [recalc EXCEPT !.pc = "history",
                                     !.currentPrice = current_prices[tokens[recalc.ti]].price]
    /\ UNCHANGED <<storeVars, passVars, streamVars, serviceVars, deleteVars, fetchVars,
                   priceUpdate, manualVars, handlerVars, pacingVars>>

\* index.js:208-223: the price 24 hours ago is read and the change computed
RecalcReadHistory(ok) ==
    /\ recalc.pc = "history"
    /\ IF ok
       THEN \E ch \in Change24h(recalc.currentPrice,
                                HistoricalRows(candlesticks, tokens[recalc.ti], recalc.dayAgo)) :
               recalc' = [recalc EXCEPT !.pc = "update", !.change24h = ch]
       ELSE recalc' = NextToken(recalc)
    /\ UNCHANGED <<storeVars, passVars, streamVars, serviceVars, deleteVars, fetchVars,
                   priceUpdate, manualVars, handlerVars, pacingVars>>

\* index.js:225-235: UPDATE current_prices SET change_24h = $1 WHERE token = $2
RecalcUpdate(ok) ==
    /\ recalc.pc = "update"
    /\ current_prices' =
          IF ok /\ current_prices[tokens[recalc.ti]] # NoRow
          THEN [current_prices EXCEPT ![tokens[recalc.ti]].change_24h = recalc.change24h]
          ELSE current_prices
    /\ recalc' = NextToken(recalc)
    /\ UNCHANGED <<candlesticks, now, lastSave, plan, gapsFound, fill, upstreamHoles,
                   passVars, streamVars, serviceVars, deleteVars, fetchVars, priceUpdate,
                   manualVars, handlerVars, pacingVars>>

\* index.js:275: the schedule of recalculate24hChanges runs every five minutes
FiveMinutesPass ==
    /\ now' = now + 5 * 60
    /\ UNCHANGED <<candlesticks, current_prices, lastSave, plan, gapsFound, fill,
                   upstreamHoles, processVars>>

PriceIdle ==
    /\ priceUpdate = NoPriceUpdate
    /\ recalc = NoRecalc

-----------------------------------------------------------------------------
(* Deletions: cleanOldData and the DELETE of initialize.                      *)

NoDelete ==
    [by |-> "none", retentionDays |-> 0, cutoff |-> 0, rowCount |-> 0, outcome |-> "none"]

\* dataManager.js:240
cutoffTime(clock, retentionDays) == clock - (retentionDays * 24 * 60 * 60)

\* Mutant of OldFiveMinute: the DELETE has no condition on the timeframe.
OldAnyTimeframe(row, cutoff) == row.open_time < cutoff

\* dataManager.js:242-245: WHERE timeframe = '5m' AND open_time < $1
OldFiveMinute(row, cutoff) == row.timeframe = "5m" /\ row.open_time < cutoff

\* dataManager.js:239-250: cleanOldData(retentionDays) returns result.rowCount; a
\* rejected query rejects the call
CleanOldDataCall(retentionDays, ok) ==
    LET cutoff == cutoffTime(now, retentionDays)
        deleted == {r \in candlesticks : OldFiveMinute(r, cutoff)}
    IN  /\ candlesticks' = IF ok THEN candlesticks \ deleted ELSE candlesticks
        /\ lastDelete' = [by |-> "cleanOldData", retentionDays |-> retentionDays,
                          cutoff |-> cutoff,
                          rowCount |-> IF ok THEN Cardinality(deleted) ELSE 0,
                          outcome |-> IF ok THEN "resolved" ELSE "rejected"]
        /\ UNCHANGED <<current_prices, now, lastSave, plan, gapsFound, fill, upstreamHoles,
                       passVars, streamVars, serviceVars, fetchVars, priceVars,
                   manualVars, handlerVars, pacingVars>>

\* index.js:246-250: WHERE created_at < '2024-01-01' OR open_time > Date.now().
\* created_at is the time of the insert (part_000:33), and the clock of the model never
\* shows a time before 2024-01-01 (T0), so the first condition selects no row here.
Synthetic(row, clock) == row.open_time > clock

\* index.js:240-250: the first statement of initialize, at the start of the process; a
\* rejected query ends initialize (295-297)
InitializeClear(ok) ==
    LET deleted == {r \in candlesticks : Synthetic(r, now)}
    IN  /\ candlesticks' = IF ok THEN candlesticks \ deleted ELSE candlesticks
        /\ lastDelete' = [by |-> "initialize", retentionDays |-> 0, cutoff |-> now,
                          rowCount |-> IF ok THEN Cardinality(deleted) ELSE 0,
                          outcome |-> IF ok THEN "resolved" ELSE "rejected"]
        /\ UNCHANGED <<current_prices, now, lastSave, plan, gapsFound, fill, upstreamHoles,
                       passVars, streamVars, serviceVars, fetchVars, priceVars,
                   manualVars, handlerVars, pacingVars>>

DeleteIdle == lastDelete = NoDelete

-----------------------------------------------------------------------------
(* HistoricalFetcher: what fetchKlines does with the response.  A value of    *)
(* the parsed payload carries its JavaScript type; a number and the decimal   *)
(* string of a number are both written as the number.                         *)

Num(n) == [type |-> "number", n |-> n]

undefined == [type |-> "undefined", n |-> 0]

NaN == [type |-> "NaN", n |-> 0]

null == [type |-> "null", items |-> <<>>]

Array(items) == [type |-> "array", items |-> items]

\* parseFloat(v): the number, or NaN for undefined
parseFloat(v) == IF v.type = "number" THEN v ELSE NaN

\* k[i] of a row that is an array: the element, or undefined past its end
ElementAt(k, i) == IF (i + 1) \in DOMAIN k.items THEN k.items[i + 1] ELSE undefined

\* part_001:38-39: k[0] of a row that is null throws a TypeError
Throws(k) == k.type # "array"

\* part_001:38-50
FormatKline(k) ==
    [openTime |-> ElementAt(k, 0),
     open |-> parseFloat(ElementAt(k, 1)),
     high |-> parseFloat(ElementAt(k, 2)),
     low |-> parseFloat(ElementAt(k, 3)),
     close |-> parseFloat(ElementAt(k, 4)),
     volume |-> parseFloat(ElementAt(k, 5)),
     closeTime |-> ElementAt(k, 6),
     quoteVolume |-> parseFloat(ElementAt(k, 7)),
     trades |-> ElementAt(k, 8),
     takerBuyBaseVolume |-> parseFloat(ElementAt(k, 9)),
     takerBuyQuoteVolume |-> parseFloat(ElementAt(k, 10))]

NoExchange ==
    [statusCode |-> 0, data |-> [json |-> "none", rows |-> <<>>], outcome |-> "none",
     klines |-> <<>>, message |-> "", status |-> 0, body |-> [json |-> "none", rows |-> <<>>]]

\* part_001:33-59: res.on('end').  data is the text of the body: json tells what
\* JSON.parse makes of it ("array" of rows, "object", or "invalid")
OnEnd(statusCode, data) ==
    IF statusCode = 200
    THEN IF data.json # "array" \/ \E i \in DOMAIN data.rows : Throws(data.rows[i])
         THEN [NoExchange EXCEPT !.statusCode = statusCode, !.data = data,
                                 !.outcome = "rejected",
                                 !.message = "Failed to parse response"]
         ELSE [NoExchange EXCEPT !.statusCode = statusCode, !.data = data,
                                 !.outcome = "resolved",
                                 !.klines = [i \in DOMAIN data.rows |->
                                                FormatKline(data.rows[i])]]
    ELSE [NoExchange EXCEPT !.statusCode = statusCode, !.data = data,
                            !.outcome = "rejected", !.message = "HTTP",
                            !.status = statusCode, !.body = data]

\* part_001:26-59: the response has arrived
FetchKlinesResponse(statusCode, data) ==
    /\ exchange' = OnEnd(statusCode, data)
    /\ UNCHANGED <<storeVars, passVars, streamVars, serviceVars, deleteVars, priceVars,
                   manualVars, handlerVars, pacingVars>>

\* part_001:61-63: req.on('error')
FetchKlinesNetworkError ==
    /\ exchange' = [NoExchange EXCEPT !.outcome = "rejected", !.message = "Network error"]
    /\ UNCHANGED <<storeVars, passVars, streamVars, serviceVars, deleteVars, priceVars,
                   manualVars, handlerVars, pacingVars>>

FetchIdle == exchange = NoExchange

-----------------------------------------------------------------------------
(* POST /api/fill-gaps with a token and a timeframe: the handler awaits       *)
(* fillGaps(token, timeframe) and answers when it has settled.  Without them  *)
(* the handler calls fillAllGaps (FillAllGapsCall above).                     *)

\* index.js:61-66: the handler calls fillGaps, which runs up to its first await
PostFillGaps(token, timeframe) ==
    /\ manualFills' = Append(manualFills, [token |-> token, timeframe |-> timeframe,
                                           promise |-> Promise("find", 0, <<>>, "")])
    /\ UNCHANGED <<storeVars, passVars, streamVars, serviceVars, deleteVars, fetchVars,
                   priceVars, handlerVars, pacingVars>>

\* dataManager.js:90-100, for the fillGaps call m of the endpoint: findDataGaps answers
\* with gaps (the first page is requested), with none, or rejects
ManualFindGaps(m, outcome) ==
    /\ m \in DOMAIN manualFills
    /\ manualFills[m].promise.pc = "find"
    /\ manualFills' =
          IF outcome = "gaps"
          THEN [manualFills EXCEPT ![m].promise = Promise("fetch", 0, <<>>, "")]
          ELSE Remove(manualFills, m)
    /\ UNCHANGED <<storeVars, passVars, streamVars, serviceVars, deleteVars, fetchVars,
                   priceVars, handlerVars, pacingVars>>

\* dataManager.js:102-141 and index.js:72-76: the fillGaps call m of the endpoint
\* returns and the response is sent
ManualFillGapsReturns(m) ==
    /\ m \in DOMAIN manualFills
    /\ manualFills[m].promise.pc = "fetch"
    /\ manualFills' = Remove(manualFills, m)
    /\ UNCHANGED <<storeVars, passVars, streamVars, serviceVars, deleteVars, fetchVars,
                   priceVars, handlerVars, pacingVars>>

ManualIdle == manualFills = <<>>

-----------------------------------------------------------------------------
(* The handlers of the stream frames, one per frame, each running from await *)
(* to await: the query of saveCandle, then the two queries of                *)
(* updateCurrentPrice.  The pool runs the queries of different handlers on   *)
(* different connections, so they complete in any order.                     *)

\* index.js:111-137: the frame is received and its handler runs up to the await of
\* saveCandle
FrameReceived(message) ==
    /\ message.e = "kline"
    /\ TokenOfSymbol(message.s) # "none"
    /\ handlers' = Append(handlers, [token |-> TokenOfSymbol(message.s),
                                     candle |-> CandleOfMessage(message), pc |-> "save",
                                     dayAgo |-> 0, change24h |-> <<0, 1>>,
                                     wrote |-> FALSE])
    /\ UNCHANGED <<storeVars, passVars, streamVars, serviceVars, deleteVars, fetchVars,
                   priceVars, manualVars, pacingVars>>

\* index.js:137-140, 158-168: the query of saveCandle has completed for handler h;
\* updateCurrentPrice computes dayAgo and sends its SELECT.  A rejected query ends the
\* handler in its catch (143-145).
HandlerSaved(h, ok) ==
    /\ h \in DOMAIN handlers
    /\ handlers[h].pc = "save"
    /\ LET token == handlers[h].token
           candle == handlers[h].candle
           tf == "5m"
       IN  IF ok
           THEN /\ lastSave' = SaveRecord("stream", token, tf, candle,
                                          QueryEffect(candlesticks, token, tf, candle))
                /\ candlesticks' = saveCandle(candlesticks, token, tf, candle)
                /\ handlers' = [handlers EXCEPT ![h].pc = "history",
                                                ![h].dayAgo = now - 24 * 60 * 60]
           ELSE /\ lastSave' = SaveRecord("stream", token, tf, candle, "error")
                /\ UNCHANGED candlesticks
                /\ handlers' = [handlers EXCEPT ![h].pc = "done"]
    /\ UNCHANGED <<current_prices, now, plan, gapsFound, fill, upstreamHoles, passVars,
                   streamVars, serviceVars, deleteVars, fetchVars, priceVars, manualVars,
                   pacingVars>>

\* index.js:162-186: the SELECT of the price 24 hours ago has completed for handler h;
\* the change is computed and the INSERT is sent.  A rejected query is caught (187-189).
HandlerReadHistory(h, ok) ==
    /\ h \in DOMAIN handlers
    /\ handlers[h].pc = "history"
    /\ IF ok
       THEN \E ch \in Change24h(handlers[h].candle.close,
                                HistoricalRows(candlesticks, handlers[h].token,
                                               handlers[h].dayAgo)) :
               handlers' = [handlers EXCEPT ![h].pc = "upsert", ![h].change24h = ch]
       ELSE handlers' = [handlers EXCEPT ![h].pc = "done"]
    /\ UNCHANGED <<storeVars, passVars, streamVars, serviceVars, deleteVars, fetchVars,
                   priceVars, manualVars, pacingVars>>

\* index.js:179-189: the INSERT ... ON CONFLICT (token) DO UPDATE has completed for
\* handler h
HandlerUpsert(h, ok) ==
    /\ h \in DOMAIN handlers
    /\ handlers[h].pc = "upsert"
    /\ current_prices' =
          IF ok
          THEN [current_prices EXCEPT ![handlers[h].token] =
                   [price |-> handlers[h].candle.close,
                    change_24h |-> handlers[h].change24h, updated_at |-> now]]
          ELSE current_prices
    /\ handlers' = [handlers EXCEPT ![h].pc = "done", ![h].wrote = ok]
    /\ UNCHANGED <<candlesticks, now, lastSave, plan, gapsFound, fill, upstreamHoles,
                   passVars, streamVars, serviceVars, deleteVars, fetchVars, priceVars,
                   manualVars, pacingVars>>

HandlersIdle == handlers = <<>>

-----------------------------------------------------------------------------
(* The requests of the fillGaps calls that run at once, over the minute that *)
(* starts with the pass.  Time is counted in ticks of 100 ms, the pause      *)
(* between two pages; a response arrives `latency` ticks after its request,  *)
(* and the writes of a page take less than a tick.  The event loop runs what *)
(* is ready before time passes.                                              *)

\* dataManager.js:133: setTimeout(resolve, 100), in ticks
PauseTicks == 1

\* One minute, in ticks.
WindowTicks == 600

\* dataManager.js:132: Binance allows 1200 requests per minute
RequestCeiling == 1200

NoPacing == [tick |-> 0, requests |-> 0, latency |-> 0, calls |-> <<>>]

\* dataManager.js:194-203, 104-114: the pass starts its fillGaps calls; `active` of
\* them find a gap and request its first page
PacedPassStarts(active, latency) ==
    /\ pacing = NoPacing
    /\ pacing' = [tick |-> 0, requests |-> active, latency |-> latency,
                  calls |-> [i \in 1..active |-> [pc |-> "request", left |-> latency]]]
    /\ UNCHANGED <<storeVars, passVars, streamVars, serviceVars, deleteVars, fetchVars,
                   priceVars, manualVars, handlerVars>>

\* dataManager.js:108-133: the page of call i has arrived and is saved, and the pause
\* starts
PacedResponse(i) ==
    /\ i \in DOMAIN pacing.calls
    /\ pacing.calls[i] = [pc |-> "request", left |-> 0]
    /\ pacing' = [pacing EXCEPT !.calls[i] = [pc |-> "pause", left |-> PauseTicks]]
    /\ UNCHANGED <<storeVars, passVars, streamVars, serviceVars, deleteVars, fetchVars,
                   priceVars, manualVars, handlerVars>>

\* dataManager.js:107-114: the pause of call i is over and the next page of its gap is
\* requested
PacedNextRequest(i) ==
    /\ i \in DOMAIN pacing.calls
    /\ pacing.calls[i] = [pc |-> "pause", left |-> 0]
    /\ pacing.requests <= RequestCeiling
    /\ pacing' = [pacing EXCEPT !.calls[i] = [pc |-> "request", left |-> pacing.latency],
                                !.requests = @ + 1]
    /\ UNCHANGED <<storeVars, passVars, streamVars, serviceVars, deleteVars, fetchVars,
                   priceVars, manualVars, handlerVars>>

\* 100 ms pass while every call waits for a response or for the end of its pause.
PacedTick ==
    /\ pacing.calls # <<>>
    /\ pacing.tick < WindowTicks - 1
    /\ \A i \in DOMAIN pacing.calls : pacing.calls[i].left > 0
    /\ pacing' = [pacing EXCEPT !.tick = @ + 1,
                                !.calls = [i \in DOMAIN pacing.calls |->
                                              [pacing.calls[i] EXCEPT !.left = @ - 1]]]
    /\ UNCHANGED <<storeVars, passVars, streamVars, serviceVars, deleteVars, fetchVars,
                   priceVars, manualVars, handlerVars>>

PacingIdle == pacing = NoPacing

-----------------------------------------------------------------------------
(* The state of the process before any of its services has run *)

ProcessIdle ==
    /\ PassIdle
    /\ StreamIdle
    /\ ServiceIdle
    /\ PriceIdle
    /\ DeleteIdle
    /\ FetchIdle
    /\ ManualIdle
    /\ HandlersIdle
    /\ PacingIdle

-----------------------------------------------------------------------------
(* The store specification: saveCandle called from the backfill loop and    *)
(* from the stream handler, on one key, with every sample kline.            *)

\* dataManager.js:122: saveCandle as fillGaps calls it on a fetched kline; a rejected
\* query leaves the table as it was
BackfillSave(token, timeframe, kline, ok) ==
    /\ IF ok
       THEN /\ lastSave' = SaveRecord("backfill", token, timeframe, kline,
                                      QueryEffect(candlesticks, token, timeframe, kline))
            /\ candlesticks' = saveCandle(candlesticks, token, timeframe, kline)
       ELSE /\ lastSave' = SaveRecord("backfill", token, timeframe, kline, "error")
            /\ UNCHANGED candlesticks
    /\ UNCHANGED <<current_prices, now, plan, gapsFound, fill, upstreamHoles, processVars>>

\* The frames the store specification receives: every sample kline for BTC, a kline of
\* a symbol that is not configured, and a frame that is no kline.
StoreMessages ==
    {KlineMessage("BTCUSDT", i, Kline(T0, i, q[1], q[2], q[3], q[4])) :
        <<i, q>> \in StoreIntervals \X {p \in Prices \X Prices \X Prices \X Prices :
                                          WellFormed(p[1], p[2], p[3], p[4])}}
    \cup {KlineMessage("DOGEUSDT", "5m", Kline(T0, "5m", 1, 1, 1, 1)),
          [e |-> "24hrTicker", s |-> "BTCUSDT"]}

StoreInit ==
    /\ ProcessIdle
    /\ candlesticks = OtherRows
    /\ current_prices = [t \in Tokens |-> NoRow]
    /\ now = T0 + 6 * 60 * 60
    /\ lastSave = NoSave
    /\ plan = NoPlan
    /\ gapsFound = NoGapsFound
    /\ fill = NoFill
    /\ upstreamHoles = {}

StoreNext ==
    \/ \E k \in StoreKlines, ok \in BOOLEAN : BackfillSave("BTC", "5m", k, ok)
    \/ \E m \in StoreMessages, outcome \in HandlerOutcomes : OnMessage(m, outcome)
    \/ \E m \in StoreMessages : OnMessageDropped(m)

SpecStore == StoreInit /\ [][StoreNext]_vars

-----------------------------------------------------------------------------
(* Claims on the store *)

\* A step in which saveCandle has run.
SaveStep == lastSave' # lastSave \/ candlesticks' # candlesticks

\* The rows stored under the key of the latest saveCandle call, before the call.
StoredBefore ==
    {r \in candlesticks : /\ r.token = lastSave'.token
                          /\ r.timeframe = lastSave'.timeframe
                          /\ r.open_time = lastSave'.candle.openTime}

\* The row a merge of candle c into the stored row must leave.
MergedAsSpecified(stored, c) ==
    [token |-> stored.token, timeframe |-> stored.timeframe,
     open_time |-> stored.open_time, open |-> stored.open,
     high |-> IF stored.high > c.high THEN stored.high ELSE c.high,
     low |-> IF stored.low < c.low THEN stored.low ELSE c.low,
     close |-> c.close, volume |-> c.volume, close_time |-> c.closeTime,
     quote_volume |-> c.quoteVolume, trades |-> c.trades,
     taker_buy_base_volume |-> c.takerBuyBaseVolume,
     taker_buy_quote_volume |-> c.takerBuyQuoteVolume]

\* The row an insert of candle c must create.
InsertedAsGiven(token, timeframe, c) ==
    [token |-> token, timeframe |-> timeframe, open_time |-> c.openTime,
     open |-> c.open, high |-> c.high, low |-> c.low, close |-> c.close,
     volume |-> c.volume, close_time |-> c.closeTime, quote_volume |-> c.quoteVolume,
     trades |-> c.trades, taker_buy_base_volume |-> c.takerBuyBaseVolume,
     taker_buy_quote_volume |-> c.takerBuyQuoteVolume]

\* C2: a successful upsert on a key that has a row, with a later closeTime, replaces
\* that row by the merge (high the maximum, low the minimum, open kept, the other
\* fields the incoming ones) and touches no other row; on a key without a row it adds
\* the candle as given.
C2_UpsertMerges ==
    [][(SaveStep /\ lastSave'.effect # "error") =>
        LET c == lastSave'.candle
        IN  IF StoredBefore = {}
            THEN candlesticks' = candlesticks \cup
                     {InsertedAsGiven(lastSave'.token, lastSave'.timeframe, c)}
            ELSE \A stored \in StoredBefore :
                    c.closeTime > stored.close_time =>
                        candlesticks' = (candlesticks \ {stored}) \cup
                                            {MergedAsSpecified(stored, c)}]_vars

\* C2 witness: a later-closeTime write with a lower high has been merged, and the row
\* keeps the higher stored high next to the incoming close.
C2_Witness ==
    /\ lastSave.effect = "update"
    /\ \E r \in candlesticks :
          /\ r.token = lastSave.token /\ r.timeframe = lastSave.timeframe
          /\ r.open_time = lastSave.candle.openTime
          /\ r.high > lastSave.candle.high
          /\ r.close_time = lastSave.candle.closeTime

\* C3: an upsert whose closeTime is at most the stored closeTime of its key leaves the
\* whole table as it was, on the backfill path and on the stream path.
C3_StaleWriteIsNoOp ==
    [][SaveStep =>
        \A stored \in StoredBefore :
            lastSave'.candle.closeTime <= stored.close_time =>
                candlesticks' = candlesticks]_vars

\* C3 witness: the stream has delivered a candle that differs from the stored row of
\* its key and closes no later, and the query has skipped it.
C3_Witness ==
    /\ lastSave.path = "stream"
    /\ lastSave.effect = "skip"
    /\ \E r \in candlesticks :
          /\ r.token = lastSave.token /\ r.timeframe = lastSave.timeframe
          /\ r.open_time = lastSave.candle.openTime
          /\ lastSave.candle.closeTime <= r.close_time
          /\ r.close # lastSave.candle.close

\* C5: every stored candle has high >= max(open, close) and low <= min(open, close),
\* every candle passed to saveCandle being so.
C5_StoredWellFormed ==
    \A r \in candlesticks : WellFormed(r.open, r.high, r.low, r.close)

\* C5 witness: a stream write has been merged into a row first written with another
\* open and a higher close, after a backfill write and a stream write met on the key.
C5_Witness ==
    /\ lastSave.path = "stream"
    /\ lastSave.effect = "update"
    /\ \E r \in candlesticks :
          /\ r.token = lastSave.token /\ r.timeframe = lastSave.timeframe
          /\ r.open_time = lastSave.candle.openTime
          /\ r.open > lastSave.candle.open
          /\ r.high > lastSave.candle.high

-----------------------------------------------------------------------------
(* The order specification: the same writes applied to one key in two       *)
(* orders.  The two runs use the key of BTC and the key of ETH at the same  *)
(* timeframe and openTime, so that the table holds both results.            *)

MaxWrites == 3

\* The klines of the scripts: two different candles for each closeTime.
PlanKlines ==
    {Kline(T0, i, p, p, p, p) : <<i, p>> \in Timeframes \X {1, 2}}

PlanInit ==
    /\ ProcessIdle
    /\ candlesticks = {}
    /\ current_prices = [t \in Tokens |-> NoRow]
    /\ now = T0 + 6 * 60 * 60
    /\ lastSave = NoSave
    /\ gapsFound = NoGapsFound
    /\ fill = NoFill
    /\ upstreamHoles = {}
    /\ \E n \in 0..MaxWrites :
          \E a \in [1..n -> PlanKlines], p \in Permutations(1..n) :
              plan = [t \in Tokens |->
                         [writes |-> IF t = "BTC" THEN a ELSE [i \in 1..n |-> a[p[i]]],
                          next |-> 1]]

\* The next call of the script of a token: saveCandle(token, '5m', kline).
PlannedSave(token) ==
    /\ plan[token].next <= Len(plan[token].writes)
    /\ LET kline == plan[token].writes[plan[token].next]
       IN  /\ lastSave' = SaveRecord("script", token, "5m", kline,
                                     QueryEffect(candlesticks, token, "5m", kline))
           /\ candlesticks' = saveCandle(candlesticks, token, "5m", kline)
    /\ plan' = [plan EXCEPT ![token].next = @ + 1]
    /\ UNCHANGED <<current_prices, now, gapsFound, fill, upstreamHoles, processVars>>

PlanNext == \E token \in Tokens : PlannedSave(token)

SpecOrder == PlanInit /\ [][PlanNext]_vars

PlanDone == \A t \in Tokens : plan[t].next > Len(plan[t].writes)

\* The candle stored under the key of a run, the token left out.
StoredCandle(token) ==
    {[r EXCEPT !.token = "any"] : r \in {x \in candlesticks : x.token = token}}

AscendingCloseTime(w) ==
    \A i, j \in 1..Len(w) : i < j => w[i].closeTime <= w[j].closeTime

\* The first write of each closeTime is the same write in both orders.
SameFirstOfEachCloseTime(a, b) ==
    \A i \in 1..Len(a) :
        (\A j \in 1..(i - 1) : a[j].closeTime # a[i].closeTime) =>
            \E k \in 1..Len(b) :
                /\ b[k] = a[i]
                /\ \A j \in 1..(k - 1) : b[j].closeTime # b[k].closeTime

\* C4 as claimed: any two orders ascending in closeTime, however they arrange writes of
\* equal closeTime, leave the same stored candle.
C4_AnyAscendingOrder ==
    (PlanDone /\ AscendingCloseTime(plan["BTC"].writes)
              /\ AscendingCloseTime(plan["ETH"].writes))
        => StoredCandle("BTC") = StoredCandle("ETH")

\* C4, first part as amended: two orders ascending in closeTime that begin each run of
\* equal closeTime with the same write leave the same stored candle.
C4_SameFirstsSameCandle ==
    (PlanDone /\ AscendingCloseTime(plan["BTC"].writes)
              /\ AscendingCloseTime(plan["ETH"].writes)
              /\ SameFirstOfEachCloseTime(plan["BTC"].writes, plan["ETH"].writes))
        => StoredCandle("BTC") = StoredCandle("ETH")

\* C4, second part: a write with an older closeTime than the stored one changes nothing.
C4_OlderAfterNewer ==
    SaveStep =>
        \A stored \in StoredBefore :
            lastSave'.candle.closeTime < stored.close_time =>
                candlesticks' = candlesticks

\* C4 as amended: both parts.
C4_AscendingOrders == [](C4_SameFirstsSameCandle) /\ [][C4_OlderAfterNewer]_vars

\* C4 witness: two different ascending orders of three writes, two of them different
\* candles, with the same first write of each closeTime, have both been applied.
C4_Witness ==
    /\ PlanDone
    /\ Len(plan["BTC"].writes) >= 3
    /\ plan["BTC"].writes # plan["ETH"].writes
    /\ AscendingCloseTime(plan["BTC"].writes)
    /\ AscendingCloseTime(plan["ETH"].writes)
    /\ SameFirstOfEachCloseTime(plan["BTC"].writes, plan["ETH"].writes)
    /\ StoredCandle("BTC") # {}

-----------------------------------------------------------------------------
(* The gap specification: findDataGaps on every series over a short grid of *)
(* openTimes, at every timeframe, read at clock values around the grid.     *)

GridLen == 6

\* The first GridLen openTimes of a timeframe from T0 on.
Grid(timeframe) == {T0 + k * intervalMs(timeframe) : k \in 0..(GridLen - 1)}

\* Clock values: on an interval boundary and one minute past it, up to three intervals
\* past the end of the grid.
GridClocks(timeframe) ==
    {T0 + k * intervalMs(timeframe) + d : k \in 0..(GridLen + 2), d \in {0, 60}}

\* What fillGaps and the routes may ask for: the configured timeframes and one that is not.
AskedTimeframes == Timeframes \cup {"invalid"}

\* The series of BTC at one timeframe, with no row that opens after now (index.js:246-250
\* deletes such rows at start-up).
GapsInit ==
    /\ ProcessIdle
    /\ current_prices = [t \in Tokens |-> NoRow]
    /\ lastSave = NoSave
    /\ plan = NoPlan
    /\ gapsFound = NoGapsFound
    /\ fill = NoFill
    /\ upstreamHoles = {}
    /\ \E tf \in Timeframes :
          /\ now \in GridClocks(tf)
          /\ \E S \in SUBSET Grid(tf) :
                /\ \A t \in S : t <= now
                /\ candlesticks = {InsertValues("BTC", tf, Kline(t, tf, 1, 1, 1, 1)) : t \in S}

GapsNext ==
    \E token \in Tokens, timeframe \in AskedTimeframes, ok \in BOOLEAN :
        FindDataGapsCall(token, timeframe, ok)

SpecGaps == GapsInit /\ [][GapsNext]_vars

-----------------------------------------------------------------------------
(* Claims on findDataGaps *)

Day == 24 * 60 * 60

\* The duration and the bootstrap window the interval policy gives a configured timeframe.
PolicyDuration(timeframe) ==
    CASE timeframe = "5m" -> 300
      [] timeframe = "1h" -> 3600
      [] timeframe = "1d" -> Day

PolicyWindow(timeframe) ==
    CASE timeframe = "5m" -> Day
      [] timeframe = "1h" -> 7 * Day
      [] timeframe = "1d" -> 90 * Day

GapsAnswered == gapsFound.outcome = "ok"

MissingBetween(prev, curr, duration) ==
    {t \in {prev + k * duration : k \in 1..((curr - prev) \div duration)} : t < curr}

\* C7: for every two consecutive rows more than one duration apart findDataGaps returns
\* exactly one gap, from prev + duration to curr - duration, counting the openTimes
\* missing between them; for two rows one duration apart it returns none; and it returns
\* no other gap up to the last row.  For 5m, 1h and 1d.
C7_GapsBetweenRows ==
    (GapsAnswered /\ gapsFound.timeframe \in Timeframes /\ gapsFound.rows # <<>>) =>
        LET rows == gapsFound.rows
            gaps == gapsFound.gaps
            D == PolicyDuration(gapsFound.timeframe)
            At(i) == {j \in DOMAIN gaps : gaps[j].start = rows[i] + D}
        IN  /\ \A i \in 1..(Len(rows) - 1) :
                  IF rows[i + 1] > rows[i] + D
                  THEN /\ Cardinality(At(i)) = 1
                       /\ \A j \in At(i) :
                             gaps[j] = [start |-> rows[i] + D, end |-> rows[i + 1] - D,
                                        missingIntervals |->
                                            Cardinality(MissingBetween(rows[i], rows[i + 1], D))]
                  ELSE At(i) = {}
            /\ \A j \in DOMAIN gaps :
                  gaps[j].start <= rows[Len(rows)] =>
                      \E i \in 1..(Len(rows) - 1) : j \in At(i)
            /\ \A j, k \in DOMAIN gaps : j < k => gaps[j].start < gaps[k].start

\* C7 witness: rows at 00:00, 01:00, 02:00, 04:00, 05:00 of the 1h series, read at 06:00,
\* give the gap [03:00, 03:00] with one missing interval.
C7_Witness ==
    /\ GapsAnswered
    /\ gapsFound.timeframe = "1h"
    /\ gapsFound.at = T0 + 6 * 3600
    /\ gapsFound.rows = <<T0, T0 + 3600, T0 + 2 * 3600, T0 + 4 * 3600, T0 + 5 * 3600>>
    /\ gapsFound.gaps = <<[start |-> T0 + 3 * 3600, end |-> T0 + 3 * 3600,
                           missingIntervals |-> 1]>>

-----------------------------------------------------------------------------
(* The fill specification: one fillGaps call on a series over a short grid, *)
(* or on a series without rows, against an upstream that may lack a kline   *)
(* and with requests and queries that may be rejected.                      *)

FillGridLen == 4

SmallPage == 2

\* maxCandles: pages small enough to split the gaps of the grid, the default, and one
\* above the upstream's limit.
PageSizes == (1..SmallPage) \cup {1000, 1001}

FillGrid(timeframe) == {T0 + k * intervalMs(timeframe) : k \in 0..(FillGridLen - 1)}

\* now: within the interval after the grid, or within the third interval after it
FillClocks(timeframe) ==
    {T0 + k * intervalMs(timeframe) + 60 : k \in {FillGridLen, FillGridLen + 2}}

FillInit ==
    /\ ProcessIdle
    /\ current_prices = [t \in Tokens |-> NoRow]
    /\ lastSave = NoSave
    /\ plan = NoPlan
    /\ gapsFound = NoGapsFound
    /\ fill = NoFill
    /\ \E tf \in Timeframes :
          /\ now \in FillClocks(tf)
          /\ upstreamHoles \in {{}} \cup {{t} : t \in FillGrid(tf)}
          /\ \E S \in SUBSET FillGrid(tf) :
                candlesticks = {InsertValues("BTC", tf, Kline(t, tf, 1, 1, 1, 1)) : t \in S}

\* The timeframes fillGaps is called for: that of the stored series, or 1d when nothing
\* is stored (the first fetch of 90 daily klines), and one that is not configured.
FillTimeframes ==
    (IF candlesticks = {} THEN {"1d"} ELSE {r.timeframe : r \in candlesticks})
        \cup {"invalid"}

FillNext ==
    \/ \E token \in {"BTC", "XRP"}, timeframe \in FillTimeframes, maxCandles \in PageSizes :
            FillGapsCall(token, timeframe, maxCandles)
    \/ \E ok \in BOOLEAN : FillFindGaps(ok)
    \/ \E ok \in BOOLEAN : FillFetch(ok)
    \/ \E ok \in BOOLEAN : FillSave(ok)
    \/ FillSleep

SpecFill == FillInit /\ [][FillNext]_vars

\* The steps of a running fillGaps call: each awaited promise (query, request, write,
\* 100 ms timer) settles, so the call is resumed.
FillResumes ==
    \/ \E ok \in BOOLEAN : FillFindGaps(ok)
    \/ \E ok \in BOOLEAN : FillFetch(ok)
    \/ \E ok \in BOOLEAN : FillSave(ok)
    \/ FillSleep

SpecFillLive == SpecFill /\ WF_vars(FillResumes)

-----------------------------------------------------------------------------
(* Claims on fillGaps *)

\* fillGaps has returned {candlesFilled, errors} for a configured token.
FillReturned == fill.pc = "done" /\ fill.token \in Tokens

StoredOpenTimes(token, timeframe) ==
    {r.open_time : r \in {x \in candlesticks : x.token = token /\ x.timeframe = timeframe}}

\* Every openTime of the grid between the first and the last stored one is stored.
NoInternalGap(token, timeframe) ==
    LET S == StoredOpenTimes(token, timeframe)
    IN  \A a \in S : (\E b \in S : b > a) => (a + PolicyDuration(timeframe)) \in S

\* C1: when the upstream holds every kline and fillGaps has returned without an error,
\* the stored series has no internal gap, and findDataGaps run right after reports no
\* gap between stored rows.
C1_FilledSeriesHasNoGap ==
    (FillReturned /\ fill.timeframe \in Timeframes /\ fill.errors = <<>>
                  /\ upstreamHoles = {}) =>
        /\ NoInternalGap(fill.token, fill.timeframe)
        /\ GapsBetween(SelectOpenTimes(candlesticks, fill.token, fill.timeframe), 1,
                       PolicyDuration(fill.timeframe)) = <<>>

\* The duration fillGaps pages a timeframe by.
PagingDuration(timeframe) ==
    IF timeframe \in Timeframes THEN PolicyDuration(timeframe) ELSE Day

\* C10, pages: the number of requests of a gap never exceeds the number of openTimes from
\* gap.start to gap.end.
C10_PagesBounded ==
    fill.pc \in {"fetch", "save", "sleep"} =>
        LET gap == fill.gaps[fill.gi]
        IN  fill.pages <= ((gap.end - gap.start) \div PagingDuration(fill.timeframe)) + 1

\* C10, union: between two pages and at the return, as long as no error was caught, the
\* keys written are the keys of the klines the fetcher returned, each stored in one row.
C10_WrittenIsFetched ==
    (fill.pc \in {"fetch", "sleep", "done"} /\ fill.token \in Tokens /\ fill.errors = <<>>) =>
        /\ fill.written = {k.openTime : k \in fill.fetched}
        /\ \A k \in fill.fetched :
              Cardinality({r \in candlesticks : /\ r.token = fill.token
                                                /\ r.timeframe = fill.timeframe
                                                /\ r.open_time = k.openTime}) = 1

\* C10, cursor: a page that is over moves the cursor forward, and within a gap the cursor
\* never moves back.
C10_CursorIncreases ==
    /\ (fill.pc = "save" /\ fill'.pc = "sleep") => fill'.currentStart > fill.currentStart
    /\ (fill.pc \in {"fetch", "save", "sleep"} /\ fill'.pc \in {"fetch", "save", "sleep"}
            /\ fill'.gi = fill.gi) => fill'.currentStart >= fill.currentStart

\* C10: the paging loop ends after a bounded number of requests with the cursor strictly
\* increasing, and has then written exactly the klines the fetcher returned, one row per
\* key.
C10_PagingTerminates ==
    /\ [](C10_PagesBounded /\ C10_WrittenIsFetched)
    /\ [][C10_CursorIncreases]_vars
    /\ (fill.pc \in {"fetch", "save", "sleep"}) ~> (fill.pc = "done")

\* C10 witness: fillGaps has returned without an error after a gap that took at least two
\* pages of one kline each.
C10_Witness ==
    /\ FillReturned
    /\ fill.errors = <<>>
    /\ fill.maxCandles = 1
    /\ fill.pages >= 2
    /\ Cardinality(fill.written) >= 2
    /\ fill.candlesFilled >= 2

-----------------------------------------------------------------------------
(* The pass specification: fillAllGaps called at any time (by initialize,    *)
(* by the hourly schedule, by POST /api/fill-gaps), with the fillGaps calls  *)
(* of a pass settling in any order.                                          *)

PassInit ==
    /\ ProcessIdle
    /\ candlesticks = {}
    /\ current_prices = [t \in Tokens |-> NoRow]
    /\ now = T0
    /\ lastSave = NoSave
    /\ plan = NoPlan
    /\ gapsFound = NoGapsFound
    /\ fill = NoFill
    /\ upstreamHoles = {}

PassNext ==
    \/ FillAllGapsCall
    \/ \E p \in DOMAIN passes, i \in 1..PairCount, outcome \in FindOutcomes :
          PassFindGaps(p, i, outcome)
    \/ \E p \in DOMAIN passes, i \in 1..PairCount, ok \in BOOLEAN :
          PassFillGapsReturns(p, i, ok)
    \/ \E p \in DOMAIN passes : FillAllGapsReturns(p)

SpecPass == PassInit /\ [][PassNext]_vars

-----------------------------------------------------------------------------
(* Claims on fillAllGaps *)

\* A step that is a call of fillAllGaps: a pass starts, or the call is dropped.
FillAllCalled ==
    \/ fillAllEvent'.kind = "started" /\ fillAllEvent' # fillAllEvent
    \/ fillAllEvent'.kind = "dropped" /\ fillAllEvent' # fillAllEvent
    \/ Len(passes') > Len(passes)

C11_OnePass ==
    /\ Len(passes) <= 1
    /\ isFillingGaps <=> passes # <<>>

C11_CallWhileRunning ==
    (passes # <<>> /\ FillAllCalled) =>
        /\ fillAllEvent' = [kind |-> "dropped", results |-> <<>>]
        /\ passes' = passes
        /\ isFillingGaps' = isFillingGaps

\* C11: at most one fillAllGaps pass runs at any time; a call made while a pass runs
\* returns the empty list at once, starts no fillGaps, sends no request, and leaves the
\* running pass and the flag as they are.
C11_SinglePass == []C11_OnePass /\ [][C11_CallWhileRunning]_vars

\* C11 witness: a call was dropped while the pass has a request out, a settled call and
\* a call that waits for findDataGaps.
C11_Witness ==
    /\ fillAllEvent.kind = "dropped"
    /\ Len(passes) = 1
    /\ \E i, j, k \in 1..PairCount :
          /\ passes[1][i].pc = "fetch"
          /\ passes[1][j].pc = "find"
          /\ Settled(passes[1][k])

PairsOfProduct == {PairAt(i) : i \in 1..PairCount}

C12_StartsEveryPair ==
    (Len(passes') > Len(passes)) =>
        LET pass == passes'[Len(passes')]
        IN  /\ DOMAIN pass = 1..PairCount
            /\ \A i \in 1..PairCount : pass[i].pc = "find"
            /\ PairsOfProduct = [token : Tokens, timeframe : Timeframes]
            /\ PairCount = Cardinality(Tokens) * Cardinality(Timeframes)

C12_ReturnsEveryPair ==
    (Len(passes') < Len(passes)) =>
        /\ fillAllEvent'.kind = "returned"
        /\ Len(fillAllEvent'.results) = Cardinality([token : Tokens, timeframe : Timeframes])
        /\ \A i \in 1..PairCount :
              /\ Settled(passes[1][i])
              /\ passes[1][i].pc = "rejected" =>
                    fillAllEvent'.results[i] =
                       [token |-> PairAt(i).token, timeframe |-> PairAt(i).timeframe,
                        error |-> passes[1][i].error]
              /\ passes[1][i].pc = "resolved" =>
                    fillAllEvent'.results[i] = passes[1][i].value

C12_FailureIsLocal ==
    \A i \in 1..PairCount :
        (Len(passes) = 1 /\ Len(passes') = 1 /\ passes[1][i].pc # "rejected"
                         /\ passes'[1][i].pc = "rejected") =>
            \A j \in (1..PairCount) \ {i} : passes'[1][j] = passes[1][j]

\* C12: a pass starts fillGaps once for every (token, timeframe) of the product of the
\* configured tokens and 5m, 1h, 1d, and returns one result per pair in that order: the
\* value of a call that resolved, {token, timeframe, error} for a call that rejected; a
\* rejection changes no other call of the pass.
C12_EveryPairReported ==
    [][C12_StartsEveryPair /\ C12_ReturnsEveryPair /\ C12_FailureIsLocal]_vars

\* C12 witness: a pass has returned with the entry of a rejected call next to the
\* results of calls that filled candles and of calls that found nothing to fill.
C12_Witness ==
    /\ fillAllEvent.kind = "returned"
    /\ passes = <<>>
    /\ \E i, j, k \in 1..PairCount :
          /\ fillAllEvent.results[i] =
                [token |-> PairAt(i).token, timeframe |-> PairAt(i).timeframe,
                 error |-> "query rejected"]
          /\ fillAllEvent.results[j] = [candlesFilled |-> 1, errors |-> <<>>]
          /\ fillAllEvent.results[k] = [candlesFilled |-> 0, errors |-> <<>>]

\* A step in which a page request of gap fill.gi is rejected.
FetchFailed ==
    /\ fill.pc = "fetch"
    /\ Len(fill'.errors) > Len(fill.errors)

\* The gaps the for loop passes from gap i (excluded) to gap j (excluded) are those whose
\* while loop is not entered.
PassedOver(f, i, j) ==
    \A k \in (i + 1)..(j - 1) : ~(f.gaps[k].start < f.gaps[k].end)

C13_FetchFailureEndsGapOnly ==
    FetchFailed =>
        /\ fill'.errors = Append(fill.errors, "fetchKlines rejected")
        /\ candlesticks' = candlesticks
        /\ fill'.candlesFilled = fill.candlesFilled
        /\ fill'.written = fill.written
        /\ fill'.gaps = fill.gaps
        /\ fill'.gi > fill.gi
        /\ PassedOver(fill, fill.gi, fill'.gi)
        /\ fill'.pc \in {"fetch", "done"}
        /\ fill'.pc = "fetch" =>
              /\ fill'.gi <= Len(fill.gaps)
              /\ fill'.currentStart = fill.gaps[fill'.gi].start
              /\ fill'.pages = 0
        /\ fill'.pc = "done" => fill'.gi = Len(fill.gaps) + 1

C13_GapsInOrder ==
    /\ fill.pc \in {"fetch", "save", "sleep"} =>
          \A j, k \in 1..Len(fill.gaps) : j < k => fill.gaps[j].start < fill.gaps[k].start
    /\ fill.errors # <<>> => fill.pc # "thrown"

C13_GapsTakenOnce ==
    (fill.pc \in {"fetch", "save", "sleep"}) => fill'.gi >= fill.gi

\* C13: a rejected page request of gap i appends its message to errors, ends the paging
\* of gap i, leaves the rows and the count of the earlier pages as they are, and the for
\* loop goes on with the gaps after i in chronological order; fillGaps then returns
\* {candlesFilled, errors} and does not reject.
C13_FetchFailureIsolated ==
    /\ []C13_GapsInOrder
    /\ [][C13_FetchFailureEndsGapOnly /\ C13_GapsTakenOnce]_vars
    /\ (fill.errors # <<>> /\ fill.token \in Tokens) ~> (fill.pc = "done")

\* C13 witness: the first request of the first of two gaps was rejected, the second gap
\* was then filled, and fillGaps has returned the count and the message.
C13_Witness ==
    /\ FillReturned
    /\ fill.errors = <<"fetchKlines rejected">>
    /\ Len(fill.gaps) = 2
    /\ fill.gaps[1].start < fill.gaps[1].end
    /\ fill.candlesFilled >= 2
    /\ fill.written # {}
    /\ \A t \in fill.written : t >= fill.gaps[2].start

\* C14: a failed store read or write reaches the caller of the operation as the failure
\* itself: a saveCandle that fails while a gap is filled rejects fillGaps, as a failed
\* findDataGaps query does, and its message is never an entry of errors.
C14_StoreFailurePropagates ==
    /\ (gapsFound.outcome = "error" /\ fill.pc # "idle") => fill.pc = "thrown"
    /\ (lastSave.path = "backfill" /\ lastSave.effect = "error") => fill.pc = "thrown"
    /\ \A i \in DOMAIN fill.errors : fill.errors[i] # "query rejected"

-----------------------------------------------------------------------------
(* The stream specification: initialize has called connectToBinance; the      *)
(* socket opens, delivers frames, fails and closes at any time.  The fair     *)
(* specification lets time pass, lets a due timer fire and lets a failed      *)
(* socket emit its close event.                                               *)

StreamMessages ==
    {KlineMessage("BTCUSDT", "5m", Kline(T0, "5m", 1, 2, 1, 2)),
     KlineMessage("BTCUSDT", "1h", Kline(T0, "1h", 1, 2, 1, 1)),
     KlineMessage("ETHUSDT", "5m", Kline(T0, "5m", 2, 2, 2, 2)),
     KlineMessage("DOGEUSDT", "5m", Kline(T0, "5m", 1, 1, 1, 1))}

StreamInit ==
    /\ PassIdle
    /\ ws = connectToBinance(NoSockets)
    /\ reconnectTimers = <<>>
    /\ ServiceIdle
    /\ PriceIdle
    /\ DeleteIdle
    /\ FetchIdle
    /\ ManualIdle
    /\ HandlersIdle
    /\ PacingIdle
    /\ candlesticks = {}
    /\ current_prices = [t \in Tokens |-> NoRow]
    /\ now = T0 + 6 * 60 * 60
    /\ lastSave = NoSave
    /\ plan = NoPlan
    /\ gapsFound = NoGapsFound
    /\ fill = NoFill
    /\ upstreamHoles = {}

StreamNext ==
    \/ WsOpen
    \/ \E state \in {"CONNECTING", "OPEN"} : WsError(state)
    \/ \E state \in {"OPEN", "CLOSING"} : WsClose(state)
    \/ TimerTick
    \/ \E i \in DOMAIN reconnectTimers : ReconnectFires(i)
    \/ \E m \in StreamMessages, outcome \in HandlerOutcomes : WsMessage(m, outcome)
    \/ \E m \in StreamMessages : WsMessageDropped(m)

SpecStream == StreamInit /\ [][StreamNext]_vars

SpecStreamLive ==
    /\ SpecStream
    /\ WF_vars(TimerTick)
    /\ WF_vars(\E i \in DOMAIN reconnectTimers : ReconnectFires(i))
    /\ WF_vars(WsClose("CLOSING"))

-----------------------------------------------------------------------------
(* Claims on the stream connection *)

LiveSockets == ws.CONNECTING + ws.OPEN + ws.CLOSING

C15_OneConnectionOrOneTimer ==
    /\ LiveSockets + Len(reconnectTimers) = 1
    /\ \A i \in DOMAIN reconnectTimers : reconnectTimers[i] \in 0..5

C15_CloseSchedulesOne ==
    /\ (LiveSockets' < LiveSockets) =>
          /\ ws.CONNECTING' = ws.CONNECTING
          /\ reconnectTimers' = Append(reconnectTimers, 5)
    /\ (Len(reconnectTimers') < Len(reconnectTimers)) =>
          /\ \E i \in DOMAIN reconnectTimers : reconnectTimers[i] = 0
          /\ ws'.CONNECTING = ws.CONNECTING + 1
    /\ (Len(reconnectTimers') = Len(reconnectTimers)) =>
          \A i \in DOMAIN reconnectTimers :
              reconnectTimers'[i] \in {reconnectTimers[i], reconnectTimers[i] - 1}

\* C15: whenever the socket closes (a remote close, or an error and then the close), one
\* reconnect is scheduled 5 s ahead, and when the 5 s have passed connectToBinance opens
\* a new socket; this has no limit, so that every failure and every close is followed by
\* a new connection attempt.
C15_AlwaysReconnects ==
    /\ []C15_OneConnectionOrOneTimer
    /\ [][C15_CloseSchedulesOne]_vars
    /\ (ws.CLOSING > 0 \/ reconnectTimers # <<>>) ~> (ws.CONNECTING > 0)

\* C15 witness: a socket that had delivered a candle has closed and the 5 s of its
\* reconnect have passed.
C15_Witness ==
    /\ reconnectTimers = <<0>>
    /\ LiveSockets = 0
    /\ lastSave.path = "stream"

-----------------------------------------------------------------------------
(* The service specification: the application connects the stream client     *)
(* once and calls disconnect() at any time, while the sockets open, deliver, *)
(* fail and close.                                                           *)

ServiceInit ==
    /\ PassIdle
    /\ StreamIdle
    /\ ServiceIdle
    /\ PriceIdle
    /\ DeleteIdle
    /\ FetchIdle
    /\ ManualIdle
    /\ HandlersIdle
    /\ PacingIdle
    /\ candlesticks = {}
    /\ current_prices = [t \in Tokens |-> NoRow]
    /\ now = T0
    /\ lastSave = NoSave
    /\ plan = NoPlan
    /\ gapsFound = NoGapsFound
    /\ fill = NoFill
    /\ upstreamHoles = {}

ServiceNext ==
    \/ webSockets = <<>> /\ ConnectKlineStreamCall
    \/ \E id \in DOMAIN webSockets : SocketOpens(id)
    \/ \E id \in DOMAIN webSockets : SocketMessage(id)
    \/ \E id \in DOMAIN webSockets : SocketFails(id)
    \/ \E id \in DOMAIN webSockets : SocketCloses(id)
    \/ TimeoutTick
    \/ \E i \in DOMAIN timeouts : TimeoutFires(i)
    \/ Disconnect

SpecService == ServiceInit /\ [][ServiceNext]_vars

\* C16: once disconnect() has been called, in whatever state, the client is stopped: no
\* reconnect timer is pending, no socket is created and no socket delivers a candle any
\* more, and a further disconnect() changes nothing.
C16_DisconnectStops ==
    service.stoppedAt >= 0 =>
        /\ timeouts = <<>>
        /\ Len(webSockets) = service.stoppedAt
        /\ service.lastData <= service.stoppedAt
        /\ \A id \in DOMAIN webSockets : webSockets[id] \in {"CLOSING", "CLOSED"}

-----------------------------------------------------------------------------
(* The price specification: updateCurrentPrice and recalculate24hChanges     *)
(* called at any time, over a table that holds candles before, at and after  *)
(* the instant 24 hours ago, one of them with a close of 0, two of them      *)
(* with the same open_time.                                                  *)

PriceClock == T0 + 2 * 24 * 60 * 60

PriceRows ==
    LET cut == PriceClock - 24 * 60 * 60
    IN  {InsertValues("BTC", "5m", Kline(cut - 300, "5m", 2, 2, 2, 2)),
         InsertValues("BTC", "5m", Kline(cut, "5m", 1, 1, 0, 0)),
         InsertValues("BTC", "1h", Kline(cut, "1h", 2, 2, 2, 2)),
         InsertValues("BTC", "5m", Kline(cut + 300, "5m", 1, 1, 1, 1)),
         InsertValues("ETH", "5m", Kline(cut - 300, "5m", 1, 1, 1, 1))}

PriceInit ==
    /\ PassIdle
    /\ StreamIdle
    /\ ServiceIdle
    /\ PriceIdle
    /\ DeleteIdle
    /\ FetchIdle
    /\ ManualIdle
    /\ HandlersIdle
    /\ PacingIdle
    /\ candlesticks \in SUBSET PriceRows
    /\ current_prices = [t \in Tokens |-> NoRow]
    /\ now = PriceClock
    /\ lastSave = NoSave
    /\ plan = NoPlan
    /\ gapsFound = NoGapsFound
    /\ fill = NoFill
    /\ upstreamHoles = {}

PriceNext ==
    \/ \E token \in Tokens, price \in Prices, ok \in BOOLEAN :
          UpdateCurrentPriceCall(token, price, ok)
    \/ Recalculate24hChangesCall
    \/ \E ok \in BOOLEAN : RecalcReadPrice(ok)
    \/ \E ok \in BOOLEAN : RecalcReadHistory(ok)
    \/ \E ok \in BOOLEAN : RecalcUpdate(ok)

SpecPrice == PriceInit /\ [][PriceNext]_vars

-----------------------------------------------------------------------------
(* Claims on the 24 h change *)

\* The stored candles of a token that open at or after dayAgo and before which no other
\* such candle opens.
FirstCandlesSince(token, dayAgo) ==
    {r \in candlesticks :
        /\ r.token = token
        /\ r.open_time >= dayAgo
        /\ ~ \E x \in candlesticks :
                x.token = token /\ x.open_time >= dayAgo /\ x.open_time < r.open_time}

\* The change of the claim, as the fraction <<numerator, denominator>>.
RuleChange(price, oldClose) ==
    IF oldClose > 0 THEN <<(price - oldClose) * 100, oldClose>> ELSE <<0, 1>>

FollowsRule(change, price, token, dayAgo) ==
    IF FirstCandlesSince(token, dayAgo) = {}
    THEN change = <<0, 1>>
    ELSE \E r \in FirstCandlesSince(token, dayAgo) : change = RuleChange(price, r.close)

C17_OnNewPrice ==
    (priceUpdate' # priceUpdate) =>
        /\ priceUpdate'.outcome \in {"written", "logged"}
        /\ priceUpdate'.outcome = "logged" => current_prices' = current_prices
        /\ priceUpdate'.outcome = "written" =>
              LET t == priceUpdate'.token
              IN  /\ current_prices'[t].price = priceUpdate'.price
                  /\ FollowsRule(current_prices'[t].change_24h, priceUpdate'.price, t,
                                 now - 24 * 60 * 60)
                  /\ \A u \in Tokens \ {t} : current_prices'[u] = current_prices[u]

C17_RecomputeAll ==
    (recalc.pc = "update" /\ recalc' # recalc /\ current_prices' # current_prices) =>
        LET t == tokens[recalc.ti]
        IN  /\ FollowsRule(current_prices'[t].change_24h, recalc.currentPrice, t,
                           recalc.dayAgo)
            /\ current_prices'[t].price = current_prices[t].price
            /\ \A u \in Tokens \ {t} : current_prices'[u] = current_prices[u]

C17_NeverRaises ==
    /\ recalc.pc \in {"idle", "price", "history", "update"}
    /\ priceUpdate.outcome \in {"none", "written", "logged"}

\* C17: updateCurrentPrice never rejects and stores, with the price, the change computed
\* from a first stored candle of the token that opens at or after now - 24 h:
\* (price - close) / close * 100 when there is one and its close > 0, and 0 when there is
\* none or its close is <= 0; recalculate24hChanges stores the change computed by the
\* same rule from the price it read in current_prices.
C17_ChangeByRule ==
    []C17_NeverRaises /\ [][C17_OnNewPrice /\ C17_RecomputeAll]_vars

\* C17 witness: the change of BTC is 0 because the first candle since 24 h ago closed at
\* 0 although a later one closed at 1, and recalculate24hChanges is about to store the
\* change it computed for BTC.
C17_Witness ==
    /\ current_prices["BTC"] # NoRow
    /\ current_prices["BTC"].price = 2
    /\ current_prices["BTC"].change_24h = <<0, 1>>
    /\ \E r \in FirstCandlesSince("BTC", now - 24 * 60 * 60) : r.close = 0
    /\ \E r \in candlesticks : r.token = "BTC" /\ r.close = 1
                                /\ r.open_time > now - 24 * 60 * 60
    /\ recalc.pc = "update"
    /\ recalc.ti = 1

-----------------------------------------------------------------------------
(* The retention specification: a table with 5m rows before, at and after    *)
(* the cutoffs, with 1h and 1d rows older than every cutoff, written to by   *)
(* the backfill and by the stream (whose clock is a second ahead of the      *)
(* process's), and the two DELETE statements of the process.                 *)

RetentionClock == T0 + 31 * 24 * 60 * 60

RetentionDays == {0, 1, 30}

RetentionRows ==
    LET cutoff == cutoffTime(RetentionClock, 30)
    IN  {InsertValues("BTC", "5m", Kline(T0, "5m", 1, 1, 1, 1)),
         InsertValues("BTC", "5m", Kline(cutoff - 300, "5m", 1, 1, 1, 1)),
         InsertValues("BTC", "5m", Kline(cutoff, "5m", 1, 1, 1, 1)),
         InsertValues("BTC", "5m", Kline(RetentionClock - 24 * 60 * 60 - 300, "5m", 1, 1, 1, 1)),
         InsertValues("BTC", "1h", Kline(T0, "1h", 1, 1, 1, 1)),
         InsertValues("BTC", "1d", Kline(T0, "1d", 1, 1, 1, 1)),
         InsertValues("ETH", "5m", Kline(T0, "5m", 1, 1, 1, 1))}

RetentionMessages ==
    {KlineMessage("BTCUSDT", "5m", Kline(RetentionClock + 1, "5m", 1, 1, 1, 1)),
     KlineMessage("BTCUSDT", "5m", Kline(RetentionClock - 300, "5m", 1, 1, 1, 1))}

RetentionInit ==
    /\ PassIdle
    /\ StreamIdle
    /\ ServiceIdle
    /\ PriceIdle
    /\ DeleteIdle
    /\ FetchIdle
    /\ ManualIdle
    /\ HandlersIdle
    /\ PacingIdle
    /\ candlesticks \in {RetentionRows} \cup {RetentionRows \ {r} : r \in RetentionRows}
    /\ current_prices = [t \in Tokens |-> NoRow]
    /\ now = RetentionClock
    /\ lastSave = NoSave
    /\ plan = NoPlan
    /\ gapsFound = NoGapsFound
    /\ fill = NoFill
    /\ upstreamHoles = {}

RetentionNext ==
    \/ \E retentionDays \in RetentionDays, ok \in BOOLEAN :
          CleanOldDataCall(retentionDays, ok)
    \/ \E ok \in BOOLEAN : InitializeClear(ok)
    \/ \E m \in RetentionMessages, outcome \in HandlerOutcomes : OnMessage(m, outcome)
    \/ \E ok \in BOOLEAN :
          BackfillSave("BTC", "1h", Kline(RetentionClock - 60 * 60, "1h", 1, 1, 1, 1), ok)

SpecRetention == RetentionInit /\ [][RetentionNext]_vars

-----------------------------------------------------------------------------
(* Claims on deletions *)

Stored(table, r) ==
    \E x \in table : x.token = r.token /\ x.timeframe = r.timeframe
                                       /\ x.open_time = r.open_time

\* C18: a stored row disappears only in a cleanOldData call, and then only if it is a 5m
\* row older than the cutoff of that call: no other step of the process (its start, the
\* backfill, the stream) removes a row.
C18_OnlyCleanupRemoves ==
    [][\A r \in candlesticks :
          ~Stored(candlesticks', r) =>
              /\ lastDelete'.by = "cleanOldData"
              /\ r.timeframe = "5m"
              /\ r.open_time < lastDelete'.cutoff]_vars

C19_CleanStep ==
    (lastDelete' # lastDelete /\ lastDelete'.by = "cleanOldData") =>
        LET cutoff == now - lastDelete'.retentionDays * Day
            old == {r \in candlesticks : r.timeframe = "5m" /\ r.open_time < cutoff}
        IN  IF lastDelete'.outcome = "resolved"
            THEN /\ candlesticks' = candlesticks \ old
                 /\ lastDelete'.rowCount = Cardinality(old)
                 /\ \A r \in candlesticks :
                       (r.timeframe \in {"1h", "1d"} \/ r.open_time >= cutoff) =>
                           r \in candlesticks'
            ELSE candlesticks' = candlesticks

\* C19: cleanOldData(retentionDays) deletes exactly the 5m rows with
\* open_time < now - retentionDays * 24 h and returns their number (0 when there is
\* none); every 1h row, every 1d row and every 5m row at or after the cutoff stays as
\* it is.
C19_CleanOldDataExact == [][C19_CleanStep]_vars

\* C19 witness: cleanOldData(30) has deleted two rows or more, and the 5m row at the
\* cutoff and the 1h and 1d rows older than the cutoff are still stored.
C19_Witness ==
    /\ lastDelete.by = "cleanOldData"
    /\ lastDelete.retentionDays = 30
    /\ lastDelete.rowCount >= 2
    /\ \E r \in candlesticks : r.timeframe = "5m" /\ r.open_time = lastDelete.cutoff
    /\ \E r \in candlesticks : r.timeframe = "1h" /\ r.open_time < lastDelete.cutoff
    /\ \E r \in candlesticks : r.timeframe = "1d" /\ r.open_time < lastDelete.cutoff
    /\ ~ \E r \in candlesticks : r.timeframe = "5m" /\ r.open_time < lastDelete.cutoff

-----------------------------------------------------------------------------
(* The fetch specification: fetchKlines receives every status and every body *)
(* of up to MaxRows rows, each row complete, short, empty or null.           *)

MaxRows == 2

RawRow(k) ==
    Array(<<Num(k.openTime), Num(k.open), Num(k.high), Num(k.low), Num(k.close),
            Num(k.volume), Num(k.closeTime), Num(k.quoteVolume), Num(k.trades),
            Num(k.takerBuyBaseVolume), Num(k.takerBuyQuoteVolume), Num(0)>>)

SampleRows ==
    {RawRow(Kline(T0, "1h", 1, 2, 1, 2)),
     RawRow(Kline(T0 + 60 * 60, "1h", 2, 2, 1, 1)),
     Array(<<Num(T0), Num(1)>>),
     Array(<<>>),
     null}

Bodies ==
    {[json |-> "array", rows |-> rows] :
        rows \in UNION {[1..n -> SampleRows] : n \in 0..MaxRows}}
    \cup {[json |-> "object", rows |-> <<>>], [json |-> "invalid", rows |-> <<>>]}

StatusCodes == {200, 400, 429, 500}

FetchInit ==
    /\ PassIdle
    /\ StreamIdle
    /\ ServiceIdle
    /\ PriceIdle
    /\ DeleteIdle
    /\ FetchIdle
    /\ ManualIdle
    /\ HandlersIdle
    /\ PacingIdle
    /\ candlesticks = {}
    /\ current_prices = [t \in Tokens |-> NoRow]
    /\ now = T0
    /\ lastSave = NoSave
    /\ plan = NoPlan
    /\ gapsFound = NoGapsFound
    /\ fill = NoFill
    /\ upstreamHoles = {}

FetchNext ==
    \/ \E statusCode \in StatusCodes, data \in Bodies : FetchKlinesResponse(statusCode, data)
    \/ FetchKlinesNetworkError

SpecFetch == FetchInit /\ [][FetchNext]_vars

\* A row with every field of a kline: an array of 11 numbers or more.
CompleteRow(k) ==
    /\ k.type = "array"
    /\ Len(k.items) >= 11
    /\ \A i \in 1..11 : k.items[i].type = "number"

CompleteKline(kline) ==
    \A f \in DOMAIN kline : kline[f].type = "number"

\* C20: fetchKlines resolves with a page only when the status is 200 and every row of
\* the payload is complete, and every field of every kline of the page is then a number;
\* any other status rejects with the status code and the body, and a payload that does
\* not parse or that has a null, empty or short row rejects as a whole.
C20_PageOrFailure ==
    /\ exchange.outcome = "resolved" =>
          /\ exchange.statusCode = 200
          /\ exchange.data.json = "array"
          /\ \A i \in DOMAIN exchange.data.rows : CompleteRow(exchange.data.rows[i])
          /\ Len(exchange.klines) = Len(exchange.data.rows)
          /\ \A i \in DOMAIN exchange.klines : CompleteKline(exchange.klines[i])
    /\ (exchange.outcome = "rejected" /\ exchange.statusCode \notin {0, 200}) =>
          /\ exchange.status = exchange.statusCode
          /\ exchange.body = exchange.data

-----------------------------------------------------------------------------
(* Claims on the requests of fillGaps *)

\* A step in which the request of a page is answered.
PageAnswered == fill.pc = "fetch" /\ fill' # fill

\* The closeTime of the last kline fetched so far.
LastFetchedCloseTime ==
    CHOOSE c \in {k.closeTime : k \in fill.fetched} :
        \A k \in fill.fetched : k.closeTime <= c

\* C21, cursor: a request is about to be issued only with the cursor before gap.end; the
\* cursor of the first page of a gap is gap.start, and that of a later page is the
\* closeTime of the last kline fetched, plus one.
C21_Cursor ==
    fill.pc = "fetch" =>
        /\ fill.currentStart < fill.gaps[fill.gi].end
        /\ fill.pages = 0 => fill.currentStart = fill.gaps[fill.gi].start
        /\ fill.pages > 0 => fill.currentStart = LastFetchedCloseTime + 1

\* C21, request: the request of a page carries limit = min(maxCandles, 1000), the cursor
\* as startTime and gap.end as endTime.
C21_Request ==
    PageAnswered =>
        /\ fill'.request.limit = LEAST(fill.maxCandles, 1000)
        /\ fill'.request.startTime = fill.currentStart
        /\ fill'.request.endTime = fill.gaps[fill.gi].end
        /\ fill'.request.symbol = MARKET_CONFIG[fill.token].symbol
        /\ fill'.request.interval = fill.timeframe

\* C21, pacing: a second or later page of a gap is requested only after the pause that
\* follows the page before it, and the pause starts only when every kline of that page
\* has been saved.
C21_Paced ==
    /\ (fill'.pc = "fetch" /\ fill'.pages > 0 /\ fill' # fill) => fill.pc = "sleep"
    /\ (fill'.pc = "sleep" /\ fill' # fill) =>
            /\ fill.pc = "save"
            /\ fill.ki = Len(fill.klines)
            /\ fill'.currentStart = fill.klines[Len(fill.klines)].closeTime + 1

\* C21, stop: after an empty page, and after a page that moves the cursor to gap.end or
\* beyond, no further page of the gap is requested.
C21_Stops ==
    /\ (PageAnswered /\ fill'.pc # "save") =>
            (fill'.pc = "done" \/ fill'.gi > fill.gi)
    /\ (fill.pc = "sleep" /\ fill.currentStart >= fill.gaps[fill.gi].end /\ fill' # fill) =>
            (fill'.pc = "done" \/ fill'.gi > fill.gi)

\* C21: every request of fillGaps for a gap carries limit = min(maxCandles, 1000), endTime
\* = gap.end and startTime = the cursor (gap.start, then the closeTime of the last kline
\* fetched plus one); the pages of a gap are requested one after another with the pause
\* between two of them, and the paging of the gap stops when the cursor is at gap.end or
\* beyond or when a page is empty.
C21_PagedRequests ==
    /\ []C21_Cursor
    /\ [][C21_Request /\ C21_Paced /\ C21_Stops]_vars

\* C21 witness: the second page of a gap is about to be requested after a first page of
\* one kline that was asked for from gap.start to gap.end.
C21_Witness ==
    /\ fill.pc = "fetch"
    /\ fill.pages = 1
    /\ fill.request.limit = 1
    /\ fill.request.startTime = fill.gaps[fill.gi].start
    /\ fill.request.endTime = fill.gaps[fill.gi].end
    /\ fill.currentStart = LastFetchedCloseTime + 1

-----------------------------------------------------------------------------
(* Claims on the timeframe of streamed candles *)

\* C22: a candle the stream handler has written is stored under the timeframe of its
\* kline stream: from its openTime to its closeTime it spans the duration of the
\* timeframe of the row, so that a kline of the 1h or 1d stream never creates or
\* overwrites a 5m row.
C22_StoredUnderStreamTimeframe ==
    (lastSave.path = "stream" /\ lastSave.effect \in {"insert", "update"}) =>
        /\ lastSave.candle.closeTime - lastSave.candle.openTime + 1
              = intervalMs(lastSave.timeframe)
        /\ \A r \in candlesticks :
              (/\ r.token = lastSave.token
               /\ r.timeframe = "5m"
               /\ r.open_time = lastSave.candle.openTime
               /\ r.close_time = lastSave.candle.closeTime) =>
                    r.close_time - r.open_time + 1 = intervalMs("5m")

-----------------------------------------------------------------------------
(* The manual fill specification: the passes of the pass specification, and  *)
(* POST /api/fill-gaps called with a token and a timeframe at any time.      *)

MaxManualFills == 2

\* The pairs the endpoint is called with.
ManualPairs == {[token |-> "BTC", timeframe |-> "5m"]}

ManualNext ==
    \/ PassNext
    \/ \E pair \in ManualPairs :
          Len(manualFills) < MaxManualFills /\ PostFillGaps(pair.token, pair.timeframe)
    \/ \E m \in DOMAIN manualFills, outcome \in FindOutcomes : ManualFindGaps(m, outcome)
    \/ \E m \in DOMAIN manualFills : ManualFillGapsReturns(m)

SpecManual == PassInit /\ [][ManualNext]_vars

\* The fillGaps calls in progress for a pair: those of the running passes and those of
\* the endpoint.
FillsInProgress(pair) ==
    Cardinality({q \in (DOMAIN passes) \X (1..PairCount) :
                    PairAt(q[2]) = pair /\ ~Settled(passes[q[1]][q[2]])})
    + Cardinality({m \in DOMAIN manualFills :
                      /\ manualFills[m].token = pair.token
                      /\ manualFills[m].timeframe = pair.timeframe})

\* C23: at no time are two fillGaps calls in progress for the same (token, timeframe),
\* whatever passes (start-up, hourly, manual for all pairs) and manual fills of one pair
\* are requested.
C23_OneFillPerPair ==
    \A pair \in PairsOfProduct : FillsInProgress(pair) <= 1

-----------------------------------------------------------------------------
(* The handler specification: up to MaxFrames frames of the BTC 5m stream,   *)
(* each an update of the kline that is open, handled side by side with each *)
(* other and with recalculate24hChanges.                                     *)

MaxFrames == 2

HandlerRows ==
    {InsertValues("BTC", "5m", Kline(PriceClock - 24 * 60 * 60, "5m", 1, 1, 1, 1))}

HandlerMessages ==
    {KlineMessage("BTCUSDT", "5m", Kline(PriceClock - 300, "5m", 1, 2, 1, c)) : c \in Prices}

HandlerInit ==
    /\ ProcessIdle
    /\ candlesticks \in {{}, HandlerRows}
    /\ current_prices = [t \in Tokens |-> NoRow]
    /\ now = PriceClock
    /\ lastSave = NoSave
    /\ plan = NoPlan
    /\ gapsFound = NoGapsFound
    /\ fill = NoFill
    /\ upstreamHoles = {}

HandlerNext ==
    \/ \E m \in HandlerMessages : Len(handlers) < MaxFrames /\ FrameReceived(m)
    \/ \E h \in DOMAIN handlers, ok \in BOOLEAN : HandlerSaved(h, ok)
    \/ \E h \in DOMAIN handlers, ok \in BOOLEAN : HandlerReadHistory(h, ok)
    \/ \E h \in DOMAIN handlers, ok \in BOOLEAN : HandlerUpsert(h, ok)
    \/ Recalculate24hChangesCall
    \/ \E ok \in BOOLEAN : RecalcReadPrice(ok)
    \/ \E ok \in BOOLEAN : RecalcReadHistory(ok)
    \/ \E ok \in BOOLEAN : RecalcUpdate(ok)

SpecHandlers == HandlerInit /\ [][HandlerNext]_vars

\* The handler of the last frame received for a token.
LastHandler(token) ==
    handlers[CHOOSE h \in DOMAIN handlers :
                /\ handlers[h].token = token
                /\ \A g \in DOMAIN handlers : handlers[g].token = token => g <= h]

\* C24: when every handler has finished and no recalculate24hChanges is running, the
\* stored price of a token is the close of the last frame received for it, provided the
\* handler of that frame has written its price, and the stored change is the change of
\* that price.
C24_LastFrameWins ==
    ((\A h \in DOMAIN handlers : handlers[h].pc = "done") /\ recalc.pc = "idle") =>
        \A t \in {handlers[h].token : h \in DOMAIN handlers} :
            LastHandler(t).wrote =>
                /\ current_prices[t].price = LastHandler(t).candle.close
                /\ FollowsRule(current_prices[t].change_24h, LastHandler(t).candle.close,
                               t, now - 24 * 60 * 60)

-----------------------------------------------------------------------------
(* The refresh specification: the price specification with the clock moving *)
(* on to the next run of the five-minute schedule.                          *)

RefreshNext ==
    \/ PriceNext
    \/ now = PriceClock /\ FiveMinutesPass

SpecRefresh == PriceInit /\ [][RefreshNext]_vars

\* A step in which recalculate24hChanges has sent its UPDATE.
RecalcWrites == recalc.pc = "update" /\ recalc' # recalc

\* C27: a step that changes the row of a token in current_prices leaves it with the
\* timestamp of the write, next to the price and the change, whether the step is
\* updateCurrentPrice or the UPDATE of recalculate24hChanges; the latter leaves the price
\* as it was.
C27_WritesRowWhole ==
    [][\A t \in Tokens :
          (current_prices'[t] # current_prices[t]) =>
              /\ DOMAIN current_prices'[t] = {"price", "change_24h", "updated_at"}
              /\ current_prices'[t].updated_at = now
              /\ RecalcWrites => current_prices'[t].price = current_prices[t].price]_vars

-----------------------------------------------------------------------------
(* Claims on the count of a gap between two rows *)

\* The gaps findDataGaps has returned between consecutive rows, each with the rows prev
\* and curr it lies between.
PairGapsFound ==
    {[prev |-> gapsFound.rows[i], curr |-> gapsFound.rows[i + 1], gap |-> gapsFound.gaps[j]] :
        <<i, j>> \in {q \in (1..(Len(gapsFound.rows) - 1)) \X DOMAIN gapsFound.gaps :
                        /\ gapsFound.rows[q[1] + 1] >
                              gapsFound.rows[q[1]] + PagingDuration(gapsFound.timeframe)
                        /\ gapsFound.gaps[q[2]].start =
                              gapsFound.rows[q[1]] + PagingDuration(gapsFound.timeframe)}}

\* C26, as stated: the gap between consecutive rows prev and curr counts
\* floor((curr - prev) / duration) missing intervals.
C26_CountedFromPrev ==
    GapsAnswered =>
        \A g \in PairGapsFound :
            g.gap.missingIntervals =
                (g.curr - g.prev) \div PagingDuration(gapsFound.timeframe)

\* C26, amended: the gap between consecutive rows prev and curr counts
\* floor((curr - (prev + duration)) / duration) missing intervals, one less than
\* floor((curr - prev) / duration): the number of openTimes from prev + duration to
\* curr - duration.
C26_CountedFromExpected ==
    GapsAnswered =>
        \A g \in PairGapsFound :
            LET D == PagingDuration(gapsFound.timeframe)
            IN  /\ g.gap.missingIntervals = (g.curr - (g.prev + D)) \div D
                /\ g.gap.missingIntervals = ((g.curr - g.prev) \div D) - 1
                /\ g.gap.missingIntervals = ((g.gap.end - g.gap.start) \div D) + 1

\* C26 witness: rows three durations apart give a gap of two missing intervals.
C26_Witness ==
    /\ GapsAnswered
    /\ \E g \in PairGapsFound :
          /\ g.curr - g.prev = 3 * PagingDuration(gapsFound.timeframe)
          /\ g.gap.missingIntervals = 2

-----------------------------------------------------------------------------
(* Claims on the number of connections *)

C28_AtMostOne ==
    /\ ws.CONNECTING + ws.OPEN + ws.CLOSING <= 1
    /\ Len(reconnectTimers) <= 1
    /\ (ws.CONNECTING + ws.OPEN + ws.CLOSING > 0) => reconnectTimers = <<>>

C28_OneForOne ==
    /\ (ws'.CONNECTING > ws.CONNECTING) =>
          /\ ws = NoSockets
          /\ Len(reconnectTimers) = 1
          /\ reconnectTimers' = <<>>
    /\ (Len(reconnectTimers') > Len(reconnectTimers)) =>
          /\ reconnectTimers = <<>>
          /\ ws' = NoSockets

\* C28: at every moment there is at most one of a socket that is connecting, a socket
\* that is open (or failed and not yet closed) and a pending reconnect timer; a socket is
\* created only by the one pending timer when no socket is left, and a timer is set only
\* by the close of the one socket when no timer is pending.
C28_OneSubscription == []C28_AtMostOne /\ [][C28_OneForOne]_vars

\* C28 witness: the socket that had delivered a candle has failed and has not closed yet:
\* no timer is pending and no other socket exists.
C28_Witness ==
    /\ ws = [NoSockets EXCEPT !.CLOSING = 1]
    /\ reconnectTimers = <<>>
    /\ lastSave.path = "stream"

-----------------------------------------------------------------------------
(* Claims on the count fillGaps returns *)

\* C29: the candlesFilled that fillGaps returns is the number of saveCandle calls that
\* completed during the call, those of a page in which a later write failed included;
\* it is 0 for a token that is not configured and for a series without gaps.
C29_CountsEveryWrite ==
    fill.pc = "done" =>
        /\ fill.candlesFilled = fill.upserts
        /\ fill.token \notin Tokens => fill.candlesFilled = 0
        /\ fill.gaps = <<>> => fill.candlesFilled = 0

-----------------------------------------------------------------------------
(* The end of a pass *)

\* Every promise a pass awaits settles: the queries of findDataGaps and saveCandle are
\* answered or rejected by the pool, a request is answered or fails, and Promise.all
\* then resolves.
SpecPassLive ==
    /\ SpecPass
    /\ WF_vars(\E p \in DOMAIN passes, i \in 1..PairCount, outcome \in FindOutcomes :
                  PassFindGaps(p, i, outcome))
    /\ WF_vars(\E p \in DOMAIN passes, i \in 1..PairCount, ok \in BOOLEAN :
                  PassFillGapsReturns(p, i, ok))
    /\ WF_vars(\E p \in DOMAIN passes : FillAllGapsReturns(p))

\* The pass returns with the flag cleared, whatever its fillGaps calls have settled
\* with.
C25_ReturnClearsFlag ==
    (Len(passes') < Len(passes)) =>
        /\ isFillingGaps' = FALSE
        /\ fillAllEvent'.kind = "returned"

\* A call made when no pass runs starts a pass.
C25_NextRunStarts ==
    (passes = <<>> /\ FillAllCalled) =>
        /\ Len(passes') = 1
        /\ fillAllEvent'.kind = "started"

-----------------------------------------------------------------------------
(* The pacing specification: a pass of which one to PairCount fillGaps calls *)
(* page through a gap that outlasts the minute, against an upstream that     *)
(* answers within the tick or a tick later.                                  *)

Latencies == {0, 1}

PacingNext ==
    \/ \E active \in 1..PairCount, latency \in Latencies : PacedPassStarts(active, latency)
    \/ \E i \in DOMAIN pacing.calls : PacedResponse(i)
    \/ \E i \in DOMAIN pacing.calls : PacedNextRequest(i)
    \/ PacedTick

SpecPacing == PassInit /\ [][PacingNext]_vars

\* C30: with the pause of 100 ms between the pages of a call, the requests that the
\* fillGaps calls of a pass have issued within one minute never number more than 1200.
C30_UnderCeiling ==
    pacing.tick < WindowTicks => pacing.requests <= RequestCeiling

====
